---- MODULE Spec2Model ----
(***************************************************************************)
(* paritydb: an embedded key-value store made of a journal of eras         *)
(* (N.era files), a flat data file of fixed-size fields (data.db), a       *)
(* metadata file (meta.db) and a write-ahead flush file (db.flush).        *)
(*                                                                         *)
(* Sources.  The facade is paritydb/src/database.rs, with find.rs and      *)
(* metadata.rs of the same crate (specification Spec); the facade of the   *)
(* root crate, src/database.rs, is specification SpecRoot; the             *)
(* application of a flush file to arbitrary data is specification          *)
(* SpecReplay.  Runs of the same facade with other inputs are the          *)
(* specifications SpecCalls (single-operation commits, drop and open),     *)
(* SpecFails (a flush_journal whose Flush::new returns an error),          *)
(* SpecLock (the LOCK file), SpecLong (era indices up to 10),              *)
(* SpecCompact (compact and the collision files of collision.rs) and       *)
(* SpecTx, SpecRootTx (the Transaction of transaction.rs of each crate).   *)
(* SpecCorrupt has opens of a directory whose db.flush is incomplete.      *)
(* Functions run on their own, with the variable probe holding their       *)
(* arguments and results: SpecOptions (from_external), SpecWriter and      *)
(* SpecWriterFair (the planner, one step at a time), SpecQuick (create,    *)
(* insert, commit, flush_journal, get for several key_index_bits, with     *)
(* the metadata as the bytes of metadata.rs), SpecRecord (append_record    *)
(* and Record::new on the bytes of a record), SpecMetadata (the metadata   *)
(* written to bytes and read back) and SpecLog (the serialized operation   *)
(* log of a Transaction and its iterator).  SpecCompactCrash is            *)
(* SpecCompact with deaths of the process inside compact.                  *)
(* The journal (src/journal.rs), the                                       *)
(* flush file (src/flush/flush.rs), the flush planner                      *)
(* (src/flush/writer.rs) and the options (src/options.rs) exist only in    *)
(* the root crate and are modelled from there.  key.rs, space.rs, the era  *)
(* iterator, era deletion, the prefix tree, Collision::apply and the       *)
(* metadata half of the flush application are in no file of the tree;      *)
(* they are modelled from the specification.                               *)
(*                                                                         *)
(* Abstractions.  A key is a number; numeric order is the byte order of    *)
(* the key and the key's top key_index_bits bits are PrefixOf; keys are    *)
(* one byte long and key_index_bits is 3.  A key handed to a Transaction   *)
(* or to get for the check of its length is a sequence of bytes.  Values   *)
(* are constant-size (ValuesLen::Constant), so a record is exactly one     *)
(* field (field_body_size = key_len + value_len) and every length is       *)
(* counted in fields.  SHA3-256 is collision free: a checksum is           *)
(* modelled by the thing it was computed over.  The directory listing of   *)
(* journal.rs is taken to contain the era files only.                      *)
(***************************************************************************)
EXTENDS Integers, Sequences, FiniteSets, TLC

\* ---------------------------------------------------------------- bounds
\* operations committed over a run, in all transactions together
MaxOps == 3
\* operations of one transaction
MaxTxOps == 2
\* deaths of the process over a run
MaxCrashes == 1
\* overwrite entries of a flush file whose content is drawn freely
MaxEntries == 2
\* commits of a run of single-operation commits
MaxCalls == 4
\* commits of a run that reaches era files with two-digit names
MaxLongOps == 11
\* operations handed to the planner
MaxWriterOps == 3

\* bytes of the longest key of the property test, and its widest prefix
MaxKeyLen == 3

\* operations committed in a run with an incomplete flush file
MaxCorruptOps == 2
\* operations committed in a run with compactions
MaxCompactOps == 6

\* ------------------------------------------------------ program constants
HEADER_UNINITIALIZED == 0
HEADER_INSERTED == 1
HEADER_CONTINUED == 2
HEADER_DELETED == 3

\* ------------------------------------------------------------- the inputs
\* keys of one byte, 0..255; the prefix is the top three bits.  The keys
\* committed: 0 and 1 share prefix 0, 32 has prefix 1.
Keys == {0, 1, 32}
Values == {1, 2}
\* the keys of the runs with a compaction: three keys of prefix 0, one of
\* prefix 1
CompactKeys == {0, 1, 2, 32}
AllKeys == Keys \cup CompactKeys
\* get: Ok(None); a panic of the call; the body of a field filled with byte 3
NoneV == 0
PanicV == 0 - 1
Fill3 == 0 - 3

\* Options of the modelled database: one key byte, one value byte,
\* three prefix bits.
Options == [key_index_bits |-> 3, key_len |-> 1, value_len |-> 1]

\* options.rs: field_body_size = key_len + value_len.size()
field_body_size == Options.key_len + Options.value_len
\* options.rs: record_offset = field_body_size + HEADER_SIZE
record_offset == field_body_size + 1
\* number of prefixes
NPrefixes == 2 ^ Options.key_index_bits
\* options.rs: initial_db_size = (2 << key_index_bits + 1) * record_offset,
\* counted here in fields; the shift binds looser than the sum
NFields == 2 * (2 ^ (Options.key_index_bits + 1))

\* key.rs: the prefix is the top key_index_bits bits of the key
PrefixOf(k) == k \div (256 \div NPrefixes)
\* key.rs: offset of the prefix' bucket (1-based field index)
KeyOffset(k) == PrefixOf(k) + 1

InsertOp(k, v) == [t |-> "Insert", k |-> k, v |-> v]
DeleteOp(k) == [t |-> "Delete", k |-> k, v |-> NoneV]
Ops == {InsertOp(k, v) : k \in Keys, v \in Values} \cup {DeleteOp(k) : k \in Keys}
Txs == UNION {[1..n -> Ops] : n \in 1..MaxTxOps}

UninitField == [h |-> HEADER_UNINITIALIZED, k |-> 0, v |-> 0]
DeletedField == [h |-> HEADER_DELETED, k |-> Fill3, v |-> Fill3]
RecordField(k, v) == [h |-> HEADER_INSERTED, k |-> k, v |-> v]

\* results of the calls: Ok(..), and the errors of error.rs
Ok == [err |-> "Ok", expected |-> 0, got |-> 0]
DatabaseLocked == [err |-> "DatabaseLocked", expected |-> 0, got |-> 0]
IoError == [err |-> "Io", expected |-> 0, got |-> 0]
InvalidKeyLen(expected, got) ==
    [err |-> "InvalidKeyLen", expected |-> expected, got |-> got]
\* a call, the key it was given (<<>> when it takes none) and its result
Returned(call, key, res) == [call |-> call, key |-> key, res |-> res]
NoCall == Returned("none", <<>>, Ok)

EmptyMetadata == [occupied_bytes |-> 0, prefixes |-> {}, collided_prefixes |-> {}]

VARIABLES
    data,            \* data.db: sequence of NFields fields
    metaFile,        \* meta.db
    eraFiles,        \* N.era files: function index -> [sum, ops, torn]
    flushFile,       \* db.flush: <<>> when absent, else <<file>>
    open,            \* a Database handle exists
    eras,            \* Journal.eras of the handle
    next_era_index,  \* Journal.next_era_index
    metadata,        \* Database.metadata
    journal_eras,    \* options.journal_eras
    hist,            \* history: the transactions whose commit returned Ok
    preNone,         \* history: the keys get gave None for before the last commit
    pending,         \* history: the commit a crash interrupted, <<>> or <<[idx, tx]>>
    fold,            \* history: the last era fold started, <<>> or <<[idx, entries, data, meta]>>
    crashes,         \* history: number of deaths of the process
    used,            \* history: number of operations handed to commit
    replayed,        \* history: <<>>, or <<data.db as the last open found it>> when it replayed db.flush
    collision,       \* collision-{prefix}.db files: function prefix -> sequence of entries
    ret,             \* the last call that reports its result: [call, key, res]
    txn,             \* the operations of the Transaction under construction
    migrated,        \* history: <<>>, or <<[prefixes, get]>>: the prefixes the last compact moved and what get gave before it; <<>> once a commit follows
    view,            \* history: <<what get and iter gave when the handle was dropped>>, <<>> once reopened
    probe            \* <<>>, or the function that was run on its own, with its arguments and what it returned: [fn, ..., ret]

vars == <<data, metaFile, eraFiles, flushFile, open, eras, next_era_index,
          metadata, journal_eras, hist, preNone, pending, fold, crashes, used,
          replayed, collision, migrated, ret, txn, view, probe>>

\* ------------------------------------------------------------ journal.rs
\* cache_memory: the operations collected into a HashMap, a later
\* operation on a key replacing an earlier one.  NoOp when the key is absent.
NoOp == [t |-> "None", k |-> 0, v |-> NoneV]

RECURSIVE cache_memory(_, _)
cache_memory(ops, k) ==
    IF ops = <<>> THEN NoOp
    ELSE IF ops[Len(ops)].k = k THEN ops[Len(ops)]
    ELSE cache_memory(SubSeq(ops, 1, Len(ops) - 1), k)

\* JournalEra::get: the value of an Insert, None otherwise
JournalEra_get(era, k) ==
    LET o == cache_memory(era.ops, k)
    IN  IF o.t = "Insert" THEN o.v ELSE NoneV

\* Journal::get: the newest era that contains the key decides; an Insert
\* gives its value, a Delete gives None
RECURSIVE Journal_get(_, _)
Journal_get(es, k) ==
    IF es = <<>> THEN NoneV
    ELSE LET o == cache_memory(es[Len(es)].ops, k)
         IN  IF o.t = "Insert" THEN o.v
             ELSE IF o.t = "Delete" THEN NoneV
             ELSE Journal_get(SubSeq(es, 1, Len(es) - 1), k)

\* the decimal name of an era file, as a sequence of digits
DecimalName(n) == IF n < 10 THEN <<n>> ELSE <<n \div 10, n % 10>>

\* order of the paths "<n>.era": byte order of the names ('.' sorts
\* before every digit)
PathLess(a, b) ==
    LET x == DecimalName(a)
        y == DecimalName(b)
    IN  IF x[1] # y[1] THEN x[1] < y[1]
        ELSE IF Len(x) = 1 THEN Len(y) > 1
        ELSE IF Len(y) = 1 THEN FALSE
        ELSE x[2] < y[2]

\* dir::era_files: the era files of the directory, sorted by path
RECURSIVE era_files(_)
era_files(idxs) ==
    IF idxs = {} THEN <<>>
    ELSE LET m == CHOOSE i \in idxs : \A j \in idxs \ {i} : PathLess(i, j)
         IN  <<m>> \o era_files(idxs \ {m})

\* dir::next_era_index: one more than the index of the last listed file
next_era_index_of(files) ==
    IF files = <<>> THEN 0 ELSE files[Len(files)] + 1

\* JournalEra::open: the payload behind the checksum is parsed into
\* operations; the checksum is not compared
JournalEra_open(idx, file) == [idx |-> idx, ops |-> file.ops]

\* JournalEra::create: checksum, then the transaction bytes
EraFile(tx) == [sum |-> tx, ops |-> tx, torn |-> FALSE]

\* ---------------------------------------------------------------- find.rs
\* find_record: scan the fields from the bucket's offset.  Uninitialized
\* ends the search; an Inserted field is compared with the key and a
\* greater key ends the search; other fields are skipped; leaving the
\* data is OutOfRange.
NotFound == [r |-> "NotFound", v |-> NoneV]
OutOfRange == [r |-> "OutOfRange", v |-> NoneV]
Found(v) == [r |-> "Found", v |-> v]

RECURSIVE find_record(_, _, _)
find_record(d, i, k) ==
    IF i > Len(d) THEN OutOfRange
    ELSE IF d[i].h = HEADER_UNINITIALIZED THEN NotFound
    ELSE IF d[i].h = HEADER_INSERTED THEN
        IF d[i].k < k THEN find_record(d, i + 1, k)
        ELSE IF d[i].k = k THEN Found(d[i].v)
        ELSE NotFound
    ELSE find_record(d, i + 1, k)

\* RecordIterator::next, run to the end: the records the iterator yields.
\* occ is what is left of the occupied prefixes, offset and peek are the
\* fields of the iterator (counted from 0; NoPeek stands for None).  An
\* Inserted field is yielded; Uninitialized sends the iterator to the next
\* occupied prefix not below offset; other fields are skipped.
NoPeek == 0 - 1

RECURSIVE skip_while(_, _)
skip_while(occ, offset) ==
    IF occ = <<>> \/ Head(occ) >= offset THEN occ
    ELSE skip_while(Tail(occ), offset)

RECURSIVE RecordIterator(_, _, _, _)
RecordIterator(d, occ, offset, peek) ==
    LET rest == skip_while(occ, offset)
        pk == IF peek # NoPeek THEN peek
              ELSE IF rest = <<>> THEN NoPeek ELSE Head(rest)
        occ2 == IF peek # NoPeek THEN occ
                ELSE IF rest = <<>> THEN <<>> ELSE Tail(rest)
        off2 == IF peek # NoPeek \/ pk = NoPeek THEN offset ELSE pk
    IN  IF pk = NoPeek \/ pk >= Len(d) THEN <<>>
        ELSE IF d[pk + 1].h = HEADER_UNINITIALIZED
             THEN RecordIterator(d, occ2, off2 + 1, NoPeek)
        ELSE IF d[pk + 1].h = HEADER_INSERTED
             THEN <<[k |-> d[pk + 1].k, v |-> d[pk + 1].v]>> \o
                  RecordIterator(d, occ2, off2 + 1, pk + 1)
        ELSE RecordIterator(d, occ2, off2 + 1, pk + 1)

\* ----------------------------------------------------------- collision.rs
\* Collision::put: the entry is appended to the file
Collision_put(file, k, v) == Append(file, [k |-> k, v |-> v])

\* Collision::get: the file is read from its start and the value of the
\* first entry with the key is returned; None at the end of the file
RECURSIVE Collision_get(_, _)
Collision_get(file, k) ==
    IF file = <<>> THEN NoneV
    ELSE IF Head(file).k = k THEN Head(file).v
    ELSE Collision_get(Tail(file), k)

\* the empty value a delete leaves in a collision file
EmptyV == 0 - 2

\* Collision::apply: an operation of a flushed era is appended to the
\* file, an Insert as its entry, a Delete as an entry with the empty value
Collision_apply(file, o) ==
    IF o.t = "Insert" THEN Collision_put(file, o.k, o.v)
    ELSE Collision_put(file, o.k, EmptyV)

\* ------------------------------------------------------------ database.rs
\* Database::get for a key of the configured length: the journal first,
\* then the prefix bit, then the bucket of the data file
Database_get(es, md, cf, d, k) ==
    LET j == Journal_get(es, k)
    IN  IF j # NoneV THEN j
        ELSE IF PrefixOf(k) \notin md.prefixes THEN NoneV
        ELSE IF PrefixOf(k) \in md.collided_prefixes THEN
            IF PrefixOf(k) \in DOMAIN cf THEN Collision_get(cf[PrefixOf(k)], k)
            ELSE NoneV
        ELSE LET r == find_record(d, KeyOffset(k), k)
             IN  IF r.r = "Found" THEN r.v
                 ELSE IF r.r = "NotFound" THEN NoneV
                 ELSE PanicV

\* PrefixTree::prefixes_iter: the occupied prefixes, ascending
RECURSIVE prefixes_iter(_)
prefixes_iter(ps) ==
    IF ps = {} THEN <<>>
    ELSE LET m == CHOOSE p \in ps : \A q \in ps : p <= q
         IN  <<m>> \o prefixes_iter(ps \ {m})

\* Journal::iter: one operation per key, the newest one of the journal,
\* in ascending order of the keys
RECURSIVE Journal_ops(_, _)
Journal_ops(es, ks) ==
    IF ks = {} THEN <<>>
    ELSE LET m == CHOOSE k \in ks : \A q \in ks : k <= q
             hit == {i \in 1..Len(es) : cache_memory(es[i].ops, m).t # "None"}
         IN  (IF hit = {} THEN <<>>
              ELSE <<cache_memory(
                       es[CHOOSE i \in hit : \A j \in hit : j <= i].ops, m)>>)
             \o Journal_ops(es, ks \ {m})
Journal_iter(es) == Journal_ops(es, AllKeys)

\* DatabaseIterator::next, run to the end: the pairs the iterator yields.
\* J is what is left of the journal iterator, R of the record iterator;
\* the pending value is the head of the list it was taken from.
\* handle_journal_operation yields an Insert and skips a Delete.
handle_journal_operation(o) ==
    IF o.t = "Insert" THEN <<[k |-> o.k, v |-> o.v]>> ELSE <<>>

RECURSIVE DatabaseIterator(_, _)
DatabaseIterator(J, R) ==
    IF J = <<>> /\ R = <<>> THEN <<>>
    ELSE IF R = <<>>
         THEN handle_journal_operation(Head(J)) \o DatabaseIterator(Tail(J), R)
    ELSE IF J = <<>> THEN <<Head(R)>> \o DatabaseIterator(J, Tail(R))
    ELSE IF Head(R).k = Head(J).k
         THEN handle_journal_operation(Head(J)) \o
              DatabaseIterator(Tail(J), Tail(R))
    ELSE IF Head(R).k > Head(J).k
         THEN handle_journal_operation(Head(J)) \o DatabaseIterator(Tail(J), R)
    ELSE <<Head(R)>> \o DatabaseIterator(J, Tail(R))

\* Database::iter
Database_iter(es, md, d) ==
    DatabaseIterator(Journal_iter(es),
                     RecordIterator(d, prefixes_iter(md.prefixes), 0, NoPeek))

\* ------------------------------------------------------------ metadata.rs
insert_record(md, prefix, len) ==
    [md EXCEPT !.occupied_bytes = @ + len, !.prefixes = @ \cup {prefix}]
remove_record(md, len) == [md EXCEPT !.occupied_bytes = @ - len]
update_record_len(md, old_len, new_len) ==
    [md EXCEPT !.occupied_bytes = (@ - old_len) + new_len]

\* --------------------------------------------------------------- space.rs
\* SpaceIterator::peek at field p: an Inserted field starts an Occupied
\* space, an Uninitialized or Deleted field is an Empty space of one
\* field, a Continued field is skipped, the end of the data gives none.
RECURSIVE SpacePeek(_, _)
SpacePeek(d, p) ==
    IF p > Len(d) THEN [t |-> "End", off |-> p, len |-> 0, next |-> p]
    ELSE IF d[p].h = HEADER_CONTINUED THEN SpacePeek(d, p + 1)
    ELSE IF d[p].h = HEADER_INSERTED
         THEN [t |-> "Occupied", off |-> p, len |-> 1, next |-> p + 1]
    ELSE [t |-> "Empty", off |-> p, len |-> 1, next |-> p + 1]

\* SpaceIterator::move_offset_forward
move_offset_forward(p, o) == IF o > p THEN o ELSE p

\* ----------------------------------------------------- flush/writer.rs
\* The seek loop of ConsumeNextOperation for an Insert: skip the records
\* with a smaller key; an equal key is overwritten, an empty space or a
\* greater key is the place of the insert.
RECURSIVE SeekInsert(_, _, _)
SeekInsert(d, p, k) ==
    LET s == SpacePeek(d, p)
    IN  IF s.t = "End" THEN [panic |-> TRUE, off |-> p, old |-> 0, pos |-> p]
        ELSE IF s.t = "Empty"
             THEN [panic |-> FALSE, off |-> s.off, old |-> 0, pos |-> p]
        ELSE IF d[s.off].k < k THEN SeekInsert(d, s.next, k)
        ELSE IF d[s.off].k = k
             THEN [panic |-> FALSE, off |-> s.off, old |-> s.len, pos |-> s.next]
        ELSE [panic |-> FALSE, off |-> s.off, old |-> 0, pos |-> p]

\* The seek loop of ConsumeNextOperation for a Delete: skip the records
\* with a smaller key; only an equal key is deleted.
RECURSIVE SeekDelete(_, _, _)
SeekDelete(d, p, k) ==
    LET s == SpacePeek(d, p)
    IN  IF s.t = "End" THEN [panic |-> TRUE, off |-> p, old |-> 0, pos |-> p]
        ELSE IF s.t = "Empty"
             THEN [panic |-> FALSE, off |-> s.off, old |-> 0, pos |-> p]
        ELSE IF d[s.off].k < k THEN SeekDelete(d, s.next, k)
        ELSE IF d[s.off].k = k
             THEN [panic |-> FALSE, off |-> s.off, old |-> s.len, pos |-> s.next]
        ELSE [panic |-> FALSE, off |-> s.off, old |-> 0, pos |-> p]

\* OperationBuffer::finish_operation: close the pending overwrite entry
finish_operation(w) ==
    IF w.cur = <<>> THEN w
    ELSE [w EXCEPT !.buf = Append(@, w.cur[1]), !.cur = <<>>]

\* OperationBuffer::denote_operation_start
denote_operation_start(off) == <<[off |-> off, fields |-> <<>>]>>

\* append fields to the pending overwrite entry
BufferWrite(w, fs) == [w EXCEPT !.cur = <<[@[1] EXCEPT !.fields = @ \o fs]>>]

DeletedFields(n) == [i \in 1..n |-> DeletedField]

WriterPanic(w) == [w EXCEPT !.st = "Finished", !.panic = TRUE]

\* OperationWriter::step, state ConsumeNextOperation
StepConsume(d, w0) ==
    LET w == finish_operation(w0)
    IN  IF w.ops = <<>> THEN [w EXCEPT !.st = "Finished"]
        ELSE
        LET op == Head(w.ops)
            p0 == move_offset_forward(w.pos, KeyOffset(op.k))
        IN  IF op.t = "Insert" THEN
                LET s == SeekInsert(d, p0, op.k)
                IN  IF s.panic THEN WriterPanic(w)
                    ELSE [w EXCEPT !.ops = Tail(@), !.pos = s.pos,
                                   !.cur = denote_operation_start(s.off),
                                   !.op = op, !.old = s.old, !.len = 0,
                                   !.st = IF s.old > 0 THEN "OverwriteOperation"
                                          ELSE "InsertOperation"]
            ELSE
                LET s == SeekDelete(d, p0, op.k)
                IN  IF s.panic THEN WriterPanic(w)
                    ELSE IF s.old = 0
                         THEN [w EXCEPT !.ops = Tail(@), !.pos = s.pos]
                    ELSE [w EXCEPT !.ops = Tail(@), !.pos = s.pos,
                                   !.cur = denote_operation_start(s.off),
                                   !.op = op, !.old = s.old, !.len = 0,
                                   !.st = "DeleteOperation"]

\* the state Advance of a planner that consumes an empty space without
\* looking at its debt
StepAdvanceAnyDebt(d, w) ==
    LET s == SpacePeek(d, w.pos)
    IN  IF s.t = "End" THEN WriterPanic(w)
        ELSE IF s.t = "Empty"
             THEN [w EXCEPT !.pos = s.next, !.sp = s, !.st = "EmptySpace"]
        ELSE IF w.len = 0 THEN [w EXCEPT !.st = "ConsumeNextOperation"]
        ELSE [w EXCEPT !.pos = s.next, !.sp = s, !.st = "OccupiedSpace"]

\* OperationWriter::step, state Advance
StepAdvance(d, w) ==
    LET s == SpacePeek(d, w.pos)
    IN  IF s.t = "End" THEN WriterPanic(w)
        ELSE IF w.len = 0 THEN [w EXCEPT !.st = "ConsumeNextOperation"]
        ELSE IF s.t = "Empty"
             THEN [w EXCEPT !.pos = s.next, !.sp = s, !.st = "EmptySpace"]
        ELSE IF w.ops = <<>>
             THEN [w EXCEPT !.pos = s.next, !.sp = s, !.st = "OccupiedSpace"]
        ELSE
        LET op == Head(w.ops)
            sk == d[s.off].k
        IN  IF sk < op.k
            THEN [w EXCEPT !.pos = s.next, !.sp = s, !.st = "OccupiedSpace"]
            ELSE IF sk = op.k
            THEN [w EXCEPT !.pos = s.next, !.ops = Tail(@), !.op = op,
                           !.old = s.len,
                           !.st = IF op.t = "Insert" THEN "OverwriteOperation"
                                  ELSE "DeleteOperation"]
            ELSE IF op.t = "Insert"
            THEN [w EXCEPT !.ops = Tail(@), !.op = op, !.st = "InsertOperation"]
            ELSE [w EXCEPT !.ops = Tail(@)]

\* OperationWriter::step
step(d, w) ==
    CASE w.st = "ConsumeNextOperation" -> StepConsume(d, w)
      [] w.st = "InsertOperation" ->
            [BufferWrite(w, <<RecordField(w.op.k, w.op.v)>>) EXCEPT
                !.md = insert_record(@, PrefixOf(w.op.k), record_offset),
                !.len = @ + 1, !.st = "Advance"]
      [] w.st = "OverwriteOperation" ->
            [BufferWrite(w, <<RecordField(w.op.k, w.op.v)>>) EXCEPT
                !.md = update_record_len(@, w.old * record_offset, record_offset),
                !.len = (@ + 1) - w.old, !.st = "Advance"]
      [] w.st = "DeleteOperation" ->
            [BufferWrite(w, DeletedFields(w.old)) EXCEPT
                !.md = remove_record(@, w.old * record_offset),
                !.st = "Advance"]
      [] w.st = "Advance" -> StepAdvance(d, w)
      [] w.st = "EmptySpace" ->
            IF w.sp.len > w.len THEN WriterPanic(w)
            ELSE [w EXCEPT !.len = @ - w.sp.len, !.st = "Advance"]
      [] w.st = "OccupiedSpace" ->
            [BufferWrite(w, SubSeq(d, w.sp.off, w.sp.off + w.sp.len - 1)) EXCEPT
                !.st = "Advance"]

\* OperationWriter::new
NewWriter(ops, md) ==
    [st |-> "ConsumeNextOperation", ops |-> ops, pos |-> 1, buf |-> <<>>,
     cur |-> <<>>, md |-> md, len |-> 0, op |-> NoOp, old |-> 0,
     sp |-> SpacePeek(<<>>, 1), panic |-> FALSE]

\* OperationWriter::run: step until Finished; the result is the list of
\* overwrites followed by the new metadata
RECURSIVE run_from(_, _)
run_from(d, w) == IF w.st = "Finished" THEN w ELSE run_from(d, step(d, w))

run(d, md, ops) ==
    LET w == run_from(d, NewWriter(ops, md))
    IN  [panic |-> w.panic, entries |-> w.buf, meta |-> w.md]

\* ---------------------------------------------------------- flush/flush.rs
\* an application that inserts the fields of an entry at its offset and
\* moves the fields behind them, instead of copying over them
RECURSIVE FlushInserting(_, _)
FlushInserting(d, entries) ==
    IF entries = <<>> THEN d
    ELSE LET e == Head(entries)
             n == Len(e.fields)
         IN  FlushInserting([i \in 1..Len(d) |->
                               IF i < e.off THEN d[i]
                               ELSE IF i < e.off + n THEN e.fields[i - e.off + 1]
                               ELSE d[i - n]],
                            Tail(entries))

\* Flush::flush: every overwrite entry is copied over the data at its offset
RECURSIVE Flush_flush(_, _)
Flush_flush(d, entries) ==
    IF entries = <<>> THEN d
    ELSE LET e == Head(entries)
         IN  Flush_flush([i \in 1..Len(d) |->
                            IF i >= e.off /\ i < e.off + Len(e.fields)
                            THEN e.fields[i - e.off + 1] ELSE d[i]],
                         Tail(entries))

\* the single-field writes of an overwrite list, in the order of the copy
RECURSIVE FieldWrites(_)
FieldWrites(entries) ==
    IF entries = <<>> THEN <<>>
    ELSE LET e == Head(entries)
         IN  [i \in 1..Len(e.fields) |->
                 [off |-> e.off + i - 1, fields |-> <<e.fields[i]>>]]
             \o FieldWrites(Tail(entries))

\* Flush::new: the planner's output written behind its checksum
FlushFileOf(plan) == [sum_ok |-> TRUE, entries |-> plan.entries, meta |-> plan.meta]

\* JournalEra::iter: the operations of the era in key order (stable)
RECURSIVE SortedOps(_)
SortedOps(ops) ==
    IF ops = <<>> THEN <<>>
    ELSE LET m == CHOOSE i \in 1..Len(ops) :
                      /\ \A j \in 1..Len(ops) : ops[i].k <= ops[j].k
                      /\ \A j \in 1..(i - 1) : ops[j].k # ops[i].k
         IN  <<ops[m]>> \o
             SortedOps(SubSeq(ops, 1, m - 1) \o SubSeq(ops, m + 1, Len(ops)))

\* --------------------------------------- database.rs: flush of one era
\* The disk and the handle's metadata while flush_journal runs.
Disk == [data |-> data, metaFile |-> metaFile, flushFile |-> flushFile,
         eraFiles |-> eraFiles, metadata |-> metadata, collision |-> collision]

\* the steps flush_journal of the root crate takes for one era:
\* Flush::new, era.delete, flush.flush, flush.delete
RootFlushEraOrder == <<"new", "era_delete", "flush", "delete">>

\* the steps flush_journal takes for one era, in the order of the code:
\* Flush::new, flush.flush, flush.delete, era.delete
FlushEraOrder == <<"new", "flush", "delete", "era_delete">>

\* the partition of the operations of an era: those on a prefix that the
\* metadata declares collided, and the others
Collided(md, ops) ==
    SelectSeq(ops, LAMBDA o : PrefixOf(o.k) \in md.collided_prefixes)
NotCollided(md, ops) ==
    SelectSeq(ops, LAMBDA o : PrefixOf(o.k) \notin md.collided_prefixes)

\* the collision files after the collided operations of an era are applied,
\* each to the file of its prefix
RECURSIVE ApplyCollided(_, _)
ApplyCollided(cf, ops) ==
    IF ops = <<>> THEN cf
    ELSE LET p == PrefixOf(Head(ops).k)
         IN  ApplyCollided(
                 IF p \in DOMAIN cf
                 THEN [cf EXCEPT ![p] = Collision_apply(@, Head(ops))]
                 ELSE cf,
                 Tail(ops))

\* the output of the planner for the operations of an era that are not
\* collided
Plan(S, era) ==
    run(S.data, S.metadata, NotCollided(S.metadata, SortedOps(era.ops)))

\* one step of the per-era body; pl is the plan of the era
FlushEraStep(S, era, pl, name) ==
    CASE name = "new" ->
            [S EXCEPT !.collision =
                          ApplyCollided(@, Collided(S.metadata, SortedOps(era.ops))),
                      !.flushFile = <<FlushFileOf(pl)>>]
      [] name = "flush" ->
            [S EXCEPT !.data = Flush_flush(@, S.flushFile[1].entries),
                      !.metaFile = S.flushFile[1].meta,
                      !.metadata = S.flushFile[1].meta]
      [] name = "delete" -> [S EXCEPT !.flushFile = <<>>]
      [] name = "era_delete" ->
            [S EXCEPT !.eraFiles = [i \in DOMAIN @ \ {era.idx} |-> @[i]]]

RECURSIVE FlushEraSteps(_, _, _, _)
FlushEraSteps(S, era, pl, names) ==
    IF names = <<>> THEN S
    ELSE FlushEraSteps(FlushEraStep(S, era, pl, Head(names)), era, pl, Tail(names))

\* what the fold of an era is to leave in data.db and meta.db
FoldOf(S, era, pl) ==
    <<[idx |-> era.idx, entries |-> pl.entries,
       data |-> Flush_flush(S.data, pl.entries), meta |-> pl.meta]>>

\* the loop of flush_journal over the drained eras; a panic of the planner
\* ends it where it stands; f is the fold last started
RECURSIVE FlushEras(_, _, _, _)
FlushEras(S, es, order, f) ==
    IF es = <<>> THEN [S |-> S, panic |-> FALSE, fold |-> f]
    ELSE LET pl == Plan(S, Head(es))
         IN  IF pl.panic
             THEN [S |-> [S EXCEPT !.collision =
                                      ApplyCollided(@, Collided(S.metadata,
                                                     SortedOps(Head(es).ops)))],
                   panic |-> TRUE, fold |-> f]
             ELSE FlushEras(FlushEraSteps(S, Head(es), pl, order), Tail(es),
                            order, FoldOf(S, Head(es), pl))

Min(a, b) == IF a < b THEN a ELSE b

\* flush_journal: how many eras are drained for an argument max
\* (NoMax stands for None)
NoMax == 0 - 1
\* a drain that leaves no retention window
to_flush_all(len, je, max) == Min(len, IF max = NoMax THEN len ELSE max)
to_flush(len, je, max) ==
    IF len < je THEN 0
    ELSE Min(len - je, IF max = NoMax THEN len ELSE max)

\* ------------------------------------------------------------------ Init
\* The state after Database::create: an empty data file, empty metadata,
\* no era, no flush file, an open handle.
Init ==
    /\ data = [i \in 1..NFields |-> UninitField]
    /\ metaFile = EmptyMetadata
    /\ eraFiles = <<>>
    /\ flushFile = <<>>
    /\ open = TRUE
    /\ eras = <<>>
    /\ next_era_index = 0
    /\ metadata = EmptyMetadata
    /\ journal_eras \in {0, 1}
    /\ hist = <<>>
    /\ preNone = {}
    /\ pending = <<>>
    /\ fold = <<>>
    /\ crashes = 0
    /\ used = 0
    /\ replayed = <<>>
    /\ collision = <<>>
    /\ migrated = <<>>
    /\ probe = <<>>
    /\ ret = NoCall
    /\ txn = <<>>
    /\ view = <<>>

\* the handle is gone: its memory is lost, the files stay
HandleLost ==
    /\ crashes < MaxCrashes
    /\ crashes' = crashes + 1
    /\ open' = FALSE
    /\ eras' = <<>>
    /\ next_era_index' = 0
    /\ metadata' = EmptyMetadata

\* the era file of index idx is written with content f
WriteEraFile(idx, f) ==
    eraFiles' = [i \in DOMAIN eraFiles \cup {idx} |->
                    IF i = idx THEN f ELSE eraFiles[i]]

\* Database::commit = Journal::push: the index is taken, the era file is
\* written (checksum, then payload) and the era is appended
Commit(tx) ==
    /\ open
    /\ used' = used + Len(tx)
    /\ next_era_index' = next_era_index + 1
    /\ WriteEraFile(next_era_index, EraFile(tx))
    /\ eras' = Append(eras, JournalEra_open(next_era_index, EraFile(tx)))
    /\ hist' = Append(hist, tx)
    /\ preNone' = {k \in Keys : Database_get(eras, metadata, collision, data, k) = NoneV}
    /\ pending' = <<>>
    /\ UNCHANGED <<data, metaFile, flushFile, open, metadata, journal_eras,
                   fold, crashes, replayed>>
    /\ migrated' = <<>>
    /\ UNCHANGED probe
    /\ UNCHANGED <<collision, ret, txn, view>>

\* the process dies inside JournalEra::create: the file holds the
\* checksum and the first n operations, or it is torn: it ends inside the
\* checksum or inside an operation, and open fails on it wherever it ends
CommitCrash(tx, n, torn) ==
    /\ open
    /\ used' = used + Len(tx)
    /\ n < Len(tx)
    /\ torn => n = 0
    /\ WriteEraFile(next_era_index,
                    [sum |-> tx, ops |-> SubSeq(tx, 1, n), torn |-> torn])
    /\ pending' = <<[idx |-> next_era_index, tx |-> tx]>>
    /\ HandleLost
    /\ UNCHANGED <<data, metaFile, flushFile, journal_eras, hist, preNone, fold,
                   replayed>>
    /\ migrated' = <<>>
    /\ UNCHANGED probe
    /\ UNCHANGED <<collision, ret, txn, view>>

\* Database::flush_journal(max)
FlushJournal(max) ==
    /\ open
    /\ LET n == to_flush(Len(eras), journal_eras, max)
           r == FlushEras(Disk, SubSeq(eras, 1, n), FlushEraOrder, fold)
       IN  /\ n > 0
           /\ data' = r.S.data
           /\ metaFile' = r.S.metaFile
           /\ flushFile' = r.S.flushFile
           /\ eraFiles' = r.S.eraFiles
           /\ fold' = r.fold
           /\ collision' = r.S.collision
           /\ IF r.panic
              THEN HandleLost
              ELSE /\ eras' = SubSeq(eras, n + 1, Len(eras))
                   /\ metadata' = r.S.metadata
                   /\ UNCHANGED <<open, next_era_index, crashes>>
    /\ UNCHANGED <<journal_eras, hist, preNone, pending, used, replayed>>
    /\ UNCHANGED <<migrated, probe, ret, txn, view>>

\* flush_journal has an era to drain
CanFlush ==
    /\ open
    /\ to_flush(Len(eras), journal_eras, NoMax) > 0

\* the process dies inside Flush::new of the first drained era: db.flush
\* exists with its final length, its content is not complete
FlushNewCrash ==
    /\ CanFlush
    /\ LET pl == Plan(Disk, eras[1])
       IN  /\ ~pl.panic
           /\ flushFile' = <<[FlushFileOf(pl) EXCEPT !.sum_ok = FALSE]>>
           /\ fold' = FoldOf(Disk, eras[1], pl)
    /\ HandleLost
    /\ UNCHANGED <<data, metaFile, eraFiles, journal_eras, hist, preNone,
                   pending, used, replayed>>
    /\ UNCHANGED <<collision, migrated, probe, ret, txn, view>>

\* the process dies inside flush_journal between two steps of the first
\* drained era: after the first n steps
FlushCrash ==
    /\ CanFlush
    /\ LET pl == Plan(Disk, eras[1])
       IN  /\ ~pl.panic
           /\ fold' = FoldOf(Disk, eras[1], pl)
           /\ \E n \in 1..3 :
                 LET S == FlushEraSteps(Disk, eras[1], pl,
                                        SubSeq(FlushEraOrder, 1, n))
                 IN  /\ data' = S.data
                     /\ metaFile' = S.metaFile
                     /\ flushFile' = S.flushFile
                     /\ eraFiles' = S.eraFiles
    /\ HandleLost
    /\ UNCHANGED <<journal_eras, hist, preNone, pending, used, replayed>>
    /\ UNCHANGED <<collision, migrated, probe, ret, txn, view>>

\* the process dies while Flush::flush copies: the first w single-field
\* writes have reached the data file, the metadata has not
FlushCrashPartial ==
    /\ CanFlush
    /\ LET pl == Plan(Disk, eras[1])
           ws == FieldWrites(pl.entries)
       IN  /\ ~pl.panic
           /\ fold' = FoldOf(Disk, eras[1], pl)
           /\ flushFile' = <<FlushFileOf(pl)>>
           /\ \E w \in 0..Len(ws) : data' = Flush_flush(data, SubSeq(ws, 1, w))
    /\ HandleLost
    /\ UNCHANGED <<metaFile, eraFiles, journal_eras, hist, preNone, pending, used,
                   replayed>>
    /\ UNCHANGED <<collision, migrated, probe, ret, txn, view>>

\* a flush file with a matching checksum is on disk
FlushDurable == flushFile # <<>> /\ flushFile[1].sum_ok

\* the process dies, or the handle is dropped, between two calls
Crash ==
    /\ open
    /\ HandleLost
    /\ UNCHANGED <<collision, migrated, probe, ret, txn, view>>
    /\ UNCHANGED <<data, metaFile, eraFiles, flushFile, journal_eras, hist,
                   preNone, pending, fold, used, replayed>>

\* Drop for Database: the handle goes out of scope between two calls and
\* the lock is released; the files stay
Drop ==
    /\ open
    /\ HandleLost
    /\ view' = <<[get |-> [k \in AllKeys |->
                              Database_get(eras, metadata, collision, data, k)],
                  iter |-> Database_iter(eras, metadata, data)]>>
    /\ UNCHANGED <<data, metaFile, eraFiles, flushFile, journal_eras, hist,
                   preNone, pending, fold, used, replayed, collision, migrated, probe, ret, txn>>

\* Journal::open: every listed era file is opened, in the order of the listing
Journal_open(files) ==
    LET l == era_files(DOMAIN files)
    IN  [i \in 1..Len(l) |-> JournalEra_open(l[i], files[l[i]])]

\* an open that deletes the flush file it finds without applying it
OpenSkipsReplay ==
    /\ ~open
    /\ \A i \in DOMAIN eraFiles : ~eraFiles[i].torn
    /\ flushFile # <<>> => flushFile[1].sum_ok
    /\ open' = TRUE
    /\ eras' = Journal_open(eraFiles)
    /\ next_era_index' = next_era_index_of(era_files(DOMAIN eraFiles))
    /\ metadata' = metaFile
    /\ flushFile' = <<>>
    /\ replayed' = <<>>
    /\ UNCHANGED <<data, metaFile, eraFiles, journal_eras, hist, preNone, pending,
                   fold, crashes, used>>
    /\ view' = <<>>
    /\ UNCHANGED <<collision, migrated, probe, ret, txn>>

\* Database::open: the journal is opened, the metadata read, and a flush
\* file that is present is applied and deleted.  The call fails on an era
\* file that cannot be parsed and on a flush file whose checksum differs.
Open ==
    /\ ~open
    /\ \A i \in DOMAIN eraFiles : ~eraFiles[i].torn
    /\ flushFile # <<>> => flushFile[1].sum_ok
    /\ open' = TRUE
    /\ eras' = Journal_open(eraFiles)
    /\ next_era_index' = next_era_index_of(era_files(DOMAIN eraFiles))
    /\ IF flushFile # <<>>
       THEN /\ data' = Flush_flush(data, flushFile[1].entries)
            /\ metaFile' = flushFile[1].meta
            /\ metadata' = flushFile[1].meta
            /\ flushFile' = <<>>
            /\ replayed' = <<data>>
       ELSE /\ metadata' = metaFile
            /\ replayed' = <<>>
            /\ UNCHANGED <<data, metaFile, flushFile>>
    /\ UNCHANGED <<eraFiles, journal_eras, hist, preNone, pending, fold, crashes,
                   used>>
    /\ view' = <<>>
    /\ UNCHANGED <<collision, migrated, probe, ret, txn>>

\* the process dies inside open_internal after Flush::flush and before
\* flush.delete: data.db and meta.db hold the overwrites, db.flush stays
OpenCrash ==
    /\ ~open
    /\ crashes < MaxCrashes
    /\ \A i \in DOMAIN eraFiles : ~eraFiles[i].torn
    /\ FlushDurable
    /\ crashes' = crashes + 1
    /\ data' = Flush_flush(data, flushFile[1].entries)
    /\ metaFile' = flushFile[1].meta
    /\ UNCHANGED <<eraFiles, flushFile, open, eras, next_era_index, metadata,
                   journal_eras, hist, preNone, pending, fold, used, replayed>>
    /\ UNCHANGED <<collision, migrated, probe, ret, txn, view>>

\* ErrorKind::CorruptedFlush, as Flush::open builds it
CorruptedFlush == [err |-> "CorruptedFlush", expected |-> 0, got |-> 0]

\* Flush::open(dir): db.flush is mapped, which is an error when there is
\* no such file; the checksum of the body is compared with the leading 32
\* bytes and a difference is CorruptedFlush; else Some(flush)
Flush_open(ff) ==
    IF ff = <<>> THEN [res |-> IoError, flush |-> <<>>]
    ELSE IF ~ff[1].sum_ok THEN [res |-> CorruptedFlush, flush |-> <<>>]
    ELSE [res |-> Ok, flush |-> ff]

\* an open that applies a db.flush whatever its checksum
OpenCorruptedApplies ==
    /\ ~open
    /\ \A i \in DOMAIN eraFiles : ~eraFiles[i].torn
    /\ flushFile # <<>>
    /\ Flush_open(flushFile).res = CorruptedFlush
    /\ data' = Flush_flush(data, flushFile[1].entries)
    /\ metaFile' = flushFile[1].meta
    /\ ret' = Returned("open", <<>>, CorruptedFlush)
    /\ UNCHANGED <<eraFiles, flushFile, open, eras, next_era_index, metadata,
                   journal_eras, hist, preNone, pending, fold, crashes, used,
                   replayed>>
    /\ UNCHANGED <<collision, migrated, probe, txn, view>>

\* Database::open on a directory whose db.flush does not carry the checksum
\* of its body: the journal is opened, the files are mapped, the metadata
\* read, and the error of Flush::open is returned before anything is written
OpenCorrupted ==
    /\ ~open
    /\ \A i \in DOMAIN eraFiles : ~eraFiles[i].torn
    /\ flushFile # <<>>
    /\ Flush_open(flushFile).res = CorruptedFlush
    /\ ret' = Returned("open", <<>>, Flush_open(flushFile).res)
    /\ UNCHANGED <<data, metaFile, eraFiles, flushFile, open, eras,
                   next_era_index, metadata, journal_eras, hist, preNone,
                   pending, fold, crashes, used, replayed>>
    /\ UNCHANGED <<collision, migrated, probe, txn, view>>

\* Flush::open(dir) called on the directory of a closed database; probe
\* keeps the db.flush it found and what it returned
FlushOpen ==
    /\ ~open
    /\ probe' = [fn |-> "Flush::open", file |-> flushFile,
                 ret |-> <<Flush_open(flushFile)>>]
    /\ UNCHANGED <<data, metaFile, eraFiles, flushFile, open, eras,
                   next_era_index, metadata, journal_eras, hist, preNone,
                   pending, fold, crashes, used, replayed>>
    /\ UNCHANGED <<collision, migrated, ret, txn, view>>

\* ------------------------------------- the facade of the root crate
\* Database::open of the root crate: the journal is opened and the
\* metadata read; db.flush is not looked at
RootOpen ==
    /\ ~open
    /\ \A i \in DOMAIN eraFiles : ~eraFiles[i].torn
    /\ open' = TRUE
    /\ eras' = Journal_open(eraFiles)
    /\ next_era_index' = next_era_index_of(era_files(DOMAIN eraFiles))
    /\ metadata' = metaFile
    /\ replayed' = <<>>
    /\ UNCHANGED <<data, metaFile, eraFiles, flushFile, journal_eras, hist,
                   preNone, pending, fold, crashes, used>>
    /\ view' = <<>>
    /\ UNCHANGED <<collision, migrated, probe, ret, txn>>

\* Database::flush_journal(max) of the root crate.  Flush::new creates
\* db.flush with create_new: with a db.flush on disk the call returns the
\* error, and the drained eras leave the journal of the handle.
RootFlushJournal(max) ==
    /\ open
    /\ LET n == to_flush(Len(eras), journal_eras, max)
           r == FlushEras(Disk, SubSeq(eras, 1, n), RootFlushEraOrder, fold)
       IN  /\ n > 0
           /\ IF flushFile # <<>> /\ ~Plan(Disk, eras[1]).panic
              THEN /\ eras' = SubSeq(eras, n + 1, Len(eras))
                   /\ UNCHANGED <<data, metaFile, flushFile, eraFiles, metadata,
                                  fold, open, next_era_index, crashes>>
              ELSE /\ data' = r.S.data
                   /\ metaFile' = r.S.metaFile
                   /\ flushFile' = r.S.flushFile
                   /\ eraFiles' = r.S.eraFiles
                   /\ fold' = r.fold
                   /\ IF r.panic
                      THEN HandleLost
                      ELSE /\ eras' = SubSeq(eras, n + 1, Len(eras))
                           /\ metadata' = r.S.metadata
                           /\ UNCHANGED <<open, next_era_index, crashes>>
    /\ UNCHANGED <<journal_eras, hist, preNone, pending, used, replayed>>
    /\ UNCHANGED <<collision, migrated, probe, ret, txn, view>>

\* the process dies inside flush_journal of the root crate between two
\* steps of the first drained era: after the first n steps
RootFlushCrash ==
    /\ CanFlush
    /\ flushFile = <<>>
    /\ LET pl == Plan(Disk, eras[1])
       IN  /\ ~pl.panic
           /\ fold' = FoldOf(Disk, eras[1], pl)
           /\ \E n \in 1..3 :
                 LET S == FlushEraSteps(Disk, eras[1], pl,
                                        SubSeq(RootFlushEraOrder, 1, n))
                 IN  /\ data' = S.data
                     /\ metaFile' = S.metaFile
                     /\ flushFile' = S.flushFile
                     /\ eraFiles' = S.eraFiles
    /\ HandleLost
    /\ UNCHANGED <<journal_eras, hist, preNone, pending, used, replayed>>
    /\ UNCHANGED <<collision, migrated, probe, ret, txn, view>>

\* Database::flush_journal(max) when Flush::new of the j-th drained era
\* returns an error of the file system, db.flush not having been created:
\* the eras before it are folded, `?` leaves the loop, and the Drain that is
\* dropped takes every drained era out of the journal of the handle
FlushJournalFails(max, j) ==
    /\ open
    /\ LET n == to_flush(Len(eras), journal_eras, max)
           r == FlushEras(Disk, SubSeq(eras, 1, j - 1), FlushEraOrder, fold)
       IN  /\ j \in 1..n
           /\ ~r.panic
           /\ ~Plan(r.S, eras[j]).panic
           /\ data' = r.S.data
           /\ metaFile' = r.S.metaFile
           /\ flushFile' = r.S.flushFile
           /\ eraFiles' = r.S.eraFiles
           /\ fold' = r.fold
           /\ metadata' = r.S.metadata
           /\ eras' = SubSeq(eras, n + 1, Len(eras))
           /\ collision' = ApplyCollided(r.S.collision,
                                         Collided(r.S.metadata,
                                                  SortedOps(eras[j].ops)))
    /\ ret' = Returned("flush_journal", <<>>, IoError)
    /\ UNCHANGED <<open, next_era_index, crashes, journal_eras, hist, preNone,
                   pending, used, replayed, migrated, probe, txn, view>>

\* Database::open while a handle of the directory is alive: LOCK is locked,
\* acquire_lock_file returns the error before anything else is done
OpenLocked ==
    /\ open
    /\ ret' = Returned("open", <<>>, DatabaseLocked)
    /\ UNCHANGED <<data, metaFile, eraFiles, flushFile, open, eras,
                   next_era_index, metadata, journal_eras, hist, preNone,
                   pending, fold, crashes, used, replayed, collision, migrated, probe, txn, view>>

\* a create that makes an empty data file before it looks at the lock
CreateUnlocked ==
    /\ ret' = Returned("create", <<>>, IF open THEN DatabaseLocked ELSE IoError)
    /\ data' = [i \in 1..NFields |-> UninitField]
    /\ UNCHANGED <<metaFile, eraFiles, flushFile, open, eras,
                   next_era_index, metadata, journal_eras, hist, preNone,
                   pending, fold, crashes, used, replayed, collision, migrated, probe, txn, view>>

\* Database::create on the directory of the database: create_dir_all finds
\* the directory; with a handle alive acquire_lock_file returns the error;
\* without one the lock is taken, create_new finds data.db and the call
\* returns that error, the lock being released with the lock file
Create ==
    /\ ret' = Returned("create", <<>>, IF open THEN DatabaseLocked ELSE IoError)
    /\ UNCHANGED <<data, metaFile, eraFiles, flushFile, open, eras,
                   next_era_index, metadata, journal_eras, hist, preNone,
                   pending, fold, crashes, used, replayed, collision, migrated, probe, txn, view>>

\* ------------------------------------------------ database.rs: compact
\* the number of keys of a prefix from which compact moves the prefix
MAX_COLLISIONS == 3

\* the keys iter() yielded for a prefix, in the order it yielded them
KeysOf(it, p) == SelectSeq(it, LAMBDA e : PrefixOf(e.k) = p)

\* Database::collisions: the prefixes with MAX_COLLISIONS keys or more
\* in what iter() yields
collisions(it) ==
    {p \in 0..(NPrefixes - 1) : Len(KeysOf(it, p)) >= MAX_COLLISIONS}

\* collision_file.put(key, get(key)) for the keys of a prefix, up to the
\* first key get gives nothing for
RECURSIVE PutKeys(_, _)
PutKeys(file, keys) ==
    IF keys = <<>> THEN file
    ELSE LET v == Database_get(eras, metadata, collision, data, Head(keys).k)
         IN  IF v \in {NoneV, PanicV} THEN file
             ELSE PutKeys(Collision_put(file, Head(keys).k, v), Tail(keys))

\* the first loop of compact over the prefixes, ascending: Collision::create
\* fails on a file that exists, and the expect on get(key) panics
RECURSIVE CompactFiles(_, _, _)
CompactFiles(cf, ps, it) ==
    IF ps = <<>> THEN [cf |-> cf, res |-> "Ok"]
    ELSE LET p == Head(ps)
             file == PutKeys(<<>>, KeysOf(it, p))
             cf2 == [q \in DOMAIN cf \cup {p} |-> IF q = p THEN file ELSE cf[q]]
         IN  IF p \in DOMAIN cf THEN [cf |-> cf, res |-> "Io"]
             ELSE IF Len(file) < Len(KeysOf(it, p))
                  THEN [cf |-> cf2, res |-> "Panic"]
             ELSE CompactFiles(cf2, Tail(ps), it)

\* the deletions compact hands to the flush: one Delete per moved key
RECURSIVE Deletions(_, _)
Deletions(ps, it) ==
    IF ps = <<>> THEN <<>>
    ELSE [i \in 1..Len(KeysOf(it, Head(ps))) |->
             DeleteOp(KeysOf(it, Head(ps))[i].k)]
         \o Deletions(Tail(ps), it)

\* Database::compact: the collision files are created and filled, the
\* moved keys are deleted from the data file through a flush, the prefixes
\* are declared collided and the metadata is written to meta.db
Compact ==
    /\ open
    /\ LET it == Database_iter(eras, metadata, data)
           ps == prefixes_iter(collisions(it))
           c == CompactFiles(collision, ps, it)
           pl == run(data, metadata, Deletions(ps, it))
           md == [pl.meta EXCEPT !.collided_prefixes = @ \cup collisions(it)]
       IN  /\ collision' = c.cf
           /\ IF c.res = "Io"
              THEN /\ ret' = Returned("compact", <<>>, IoError)
                   /\ UNCHANGED <<data, metaFile, metadata, open, eras,
                                  next_era_index, crashes, migrated>>
              ELSE IF c.res = "Panic" \/ pl.panic
              THEN /\ HandleLost
                   /\ UNCHANGED <<data, metaFile, ret, migrated>>
              ELSE /\ data' = Flush_flush(data, pl.entries)
                   /\ metadata' = md
                   /\ metaFile' = md
                   /\ ret' = Returned("compact", <<>>, Ok)
                   /\ migrated' =
                          <<[prefixes |-> collisions(it),
                             get |-> [k \in AllKeys |->
                                        Database_get(eras, metadata, collision,
                                                     data, k)]]>>
                   /\ UNCHANGED <<open, eras, next_era_index, crashes>>
    /\ UNCHANGED <<probe, eraFiles, flushFile, journal_eras, hist, preNone, pending,
                   fold, used, replayed, txn, view>>

\* the places at which the process may die inside compact: after the
\* collision files are written, after Flush::new, after flush.flush, after
\* flush.delete; the write of the collided bits to meta.db comes last
CompactCrashPoints == {"files", "new", "flush", "delete"}

\* the process dies inside Database::compact at the given place
CompactCrash(point) ==
    /\ open
    /\ LET it == Database_iter(eras, metadata, data)
           ps == prefixes_iter(collisions(it))
           c == CompactFiles(collision, ps, it)
           pl == run(data, metadata, Deletions(ps, it))
       IN  /\ ps # <<>>
           /\ c.res = "Ok"
           /\ ~pl.panic
           /\ collision' = c.cf
           /\ flushFile' = IF point \in {"new", "flush"}
                           THEN <<FlushFileOf(pl)>> ELSE flushFile
           /\ data' = IF point \in {"flush", "delete"}
                      THEN Flush_flush(data, pl.entries) ELSE data
           /\ metaFile' = IF point \in {"flush", "delete"}
                          THEN pl.meta ELSE metaFile
    /\ probe' = [fn |-> "compact", point |-> point, crashes |-> crashes + 1,
                 get |-> [k \in AllKeys |->
                            Database_get(eras, metadata, collision, data, k)]]
    /\ HandleLost
    /\ UNCHANGED <<eraFiles, journal_eras, hist, preNone, pending, fold, used,
                   replayed, migrated, ret, txn, view>>

\* ------------------------------------------------------- transaction.rs
\* keys as the caller hands them over: byte strings of length 0, 1 and 2
TxKeys == {<<>>, <<0>>, <<1>>, <<0, 1>>}

\* Transaction::insert and Transaction::delete: a key of another length
\* than key_len is refused, any other operation is appended
Transaction_insert(t, key, value) ==
    IF Len(key) # Options.key_len
    THEN [res |-> InvalidKeyLen(Options.key_len, Len(key)), ops |-> t]
    ELSE [res |-> Ok, ops |-> Append(t, InsertOp(key, value))]
Transaction_delete(t, key) ==
    IF Len(key) # Options.key_len
    THEN [res |-> InvalidKeyLen(Options.key_len, Len(key)), ops |-> t]
    ELSE [res |-> Ok, ops |-> Append(t, DeleteOp(key))]

\* Transaction::insert and Transaction::delete of the root crate: the
\* operation is appended, nothing is returned
RootTransaction_insert(t, key, value) ==
    [res |-> Ok, ops |-> Append(t, InsertOp(key, value))]
RootTransaction_delete(t, key) ==
    [res |-> Ok, ops |-> Append(t, DeleteOp(key))]

\* the key-length check at the head of Database::get
Database_get_check(key) ==
    IF Len(key) # Options.key_len
    THEN InvalidKeyLen(Options.key_len, Len(key))
    ELSE Ok

\* Database::create_transaction / Transaction::default
TxNew ==
    /\ txn # <<>>
    /\ txn' = <<>>
    /\ ret' = Returned("create_transaction", <<>>, Ok)
    /\ UNCHANGED <<data, metaFile, eraFiles, flushFile, open, eras,
                   next_era_index, metadata, journal_eras, hist, preNone,
                   pending, fold, crashes, used, replayed, collision, migrated, probe, view>>

\* tx.insert(key, value) on the transaction under construction
TxInsert(key, value) ==
    /\ Len(txn) < MaxTxOps
    /\ txn' = Transaction_insert(txn, key, value).ops
    /\ ret' = Returned("insert", key, Transaction_insert(txn, key, value).res)
    /\ UNCHANGED <<data, metaFile, eraFiles, flushFile, open, eras,
                   next_era_index, metadata, journal_eras, hist, preNone,
                   pending, fold, crashes, used, replayed, collision, migrated, probe, view>>

\* tx.delete(key) on the transaction under construction
TxDelete(key) ==
    /\ Len(txn) < MaxTxOps
    /\ txn' = Transaction_delete(txn, key).ops
    /\ ret' = Returned("delete", key, Transaction_delete(txn, key).res)
    /\ UNCHANGED <<data, metaFile, eraFiles, flushFile, open, eras,
                   next_era_index, metadata, journal_eras, hist, preNone,
                   pending, fold, crashes, used, replayed, collision, migrated, probe, view>>

\* tx.insert(key, value) of the root crate
RootTxInsert(key, value) ==
    /\ Len(txn) < MaxTxOps
    /\ txn' = RootTransaction_insert(txn, key, value).ops
    /\ ret' = Returned("insert", key, RootTransaction_insert(txn, key, value).res)
    /\ UNCHANGED <<data, metaFile, eraFiles, flushFile, open, eras,
                   next_era_index, metadata, journal_eras, hist, preNone,
                   pending, fold, crashes, used, replayed, collision, migrated, probe, view>>

\* tx.delete(key) of the root crate
RootTxDelete(key) ==
    /\ Len(txn) < MaxTxOps
    /\ txn' = RootTransaction_delete(txn, key).ops
    /\ ret' = Returned("delete", key, RootTransaction_delete(txn, key).res)
    /\ UNCHANGED <<data, metaFile, eraFiles, flushFile, open, eras,
                   next_era_index, metadata, journal_eras, hist, preNone,
                   pending, fold, crashes, used, replayed, collision, migrated, probe, view>>

\* db.get(key): the length of the key is looked at first, in both crates
GetKey(key) ==
    /\ open
    /\ ret' = Returned("get", key, Database_get_check(key))
    /\ UNCHANGED <<data, metaFile, eraFiles, flushFile, open, eras,
                   next_era_index, metadata, journal_eras, hist, preNone,
                   pending, fold, crashes, used, replayed, collision, migrated, probe, txn, view>>

MaxArgs == {NoMax, 1}

\* the transactions of S that a run which may commit max operations in
\* all can still commit
Affordable(S, max) == {tx \in S : used + Len(tx) <= max}

Next ==
    \/ \E tx \in Affordable(Txs, MaxOps) : Commit(tx)
    \/ \E tx \in Affordable(Txs, MaxOps), n \in 0..MaxTxOps, torn \in BOOLEAN :
          CommitCrash(tx, n, torn)
    \/ \E max \in MaxArgs : FlushJournal(max)
    \/ FlushNewCrash
    \/ FlushCrash
    \/ FlushCrashPartial
    \/ Crash
    \/ Open

Spec == Init /\ [][Next]_vars

NextRoot ==
    \/ \E tx \in Affordable(Txs, MaxOps) : Commit(tx)
    \/ \E tx \in Affordable(Txs, MaxOps), n \in 0..MaxTxOps, torn \in BOOLEAN :
          CommitCrash(tx, n, torn)
    \/ \E max \in MaxArgs : RootFlushJournal(max)
    \/ RootFlushCrash
    \/ Crash
    \/ RootOpen

SpecRoot == Init /\ [][NextRoot]_vars

\* ---------------------------------- runs of single-operation commits
\* Transactions of one operation on the keys 0 and 1 of prefix 0, up to
\* MaxCalls of them; journal_eras is 0 or 2; no death of the process.
CallOps == {InsertOp(k, v) : k \in {0, 1}, v \in Values} \cup
           {DeleteOp(k) : k \in {0, 1}}
CallTxs == {<<o>> : o \in CallOps}

InitCalls ==
    /\ data = [i \in 1..NFields |-> UninitField]
    /\ metaFile = EmptyMetadata
    /\ eraFiles = <<>>
    /\ flushFile = <<>>
    /\ open = TRUE
    /\ eras = <<>>
    /\ next_era_index = 0
    /\ metadata = EmptyMetadata
    /\ journal_eras \in {0, 2}
    /\ hist = <<>>
    /\ preNone = {}
    /\ pending = <<>>
    /\ fold = <<>>
    /\ crashes = 0
    /\ used = 0
    /\ replayed = <<>>
    /\ collision = <<>>
    /\ migrated = <<>>
    /\ probe = <<>>
    /\ ret = NoCall
    /\ txn = <<>>
    /\ view = <<>>

NextCalls ==
    \/ \E tx \in Affordable(CallTxs, MaxCalls) : Commit(tx)
    \/ \E max \in MaxArgs : FlushJournal(max)
    \/ Drop
    \/ Open

SpecCalls == InitCalls /\ [][NextCalls]_vars

\* the same runs, of up to MaxOps commits, in which Flush::new may fail
NextFails ==
    \/ \E tx \in Affordable(CallTxs, MaxOps) : Commit(tx)
    \/ \E max \in MaxArgs : FlushJournal(max)
    \/ \E max \in MaxArgs, j \in 1..MaxOps : FlushJournalFails(max, j)

SpecFails == InitCalls /\ [][NextFails]_vars

\* the same runs, of up to MaxOps commits, with calls of create and open
\* while the handle is alive and after it was dropped
NextLock ==
    \/ \E tx \in Affordable(CallTxs, MaxOps) : Commit(tx)
    \/ \E max \in MaxArgs : FlushJournal(max)
    \/ Drop
    \/ Open
    \/ OpenLocked
    \/ Create

SpecLock == InitCalls /\ [][NextLock]_vars

\* ------------------------------------------- a long run on one key
\* eleven commits on one key reach the era file 10.era
LongTxs == {<<InsertOp(0, 1)>>, <<InsertOp(0, 2)>>}

\* The state of a database created with journal_eras = 0 after eight
\* commits of Insert(0, 1) and a flush_journal(None): the eras 0..7 are
\* folded and their files deleted, the next era is 8.era.
InitLong ==
    /\ data = [i \in 1..NFields |->
                  IF i = 1 THEN RecordField(0, 1) ELSE UninitField]
    /\ metaFile = insert_record(EmptyMetadata, 0, record_offset)
    /\ eraFiles = <<>>
    /\ flushFile = <<>>
    /\ open = TRUE
    /\ eras = <<>>
    /\ next_era_index = 8
    /\ metadata = insert_record(EmptyMetadata, 0, record_offset)
    /\ journal_eras = 0
    /\ hist = [i \in 1..8 |-> <<InsertOp(0, 1)>>]
    /\ preNone = Keys \ {0}
    /\ pending = <<>>
    /\ fold = <<[idx |-> 7,
                 entries |-> <<[off |-> 1, fields |-> <<RecordField(0, 1)>>]>>,
                 data |-> [i \in 1..NFields |->
                              IF i = 1 THEN RecordField(0, 1) ELSE UninitField],
                 meta |-> insert_record(EmptyMetadata, 0, record_offset)]>>
    /\ crashes = 0
    /\ used = 8
    /\ replayed = <<>>
    /\ collision = <<>>
    /\ migrated = <<>>
    /\ probe = <<>>
    /\ ret = NoCall
    /\ txn = <<>>
    /\ view = <<>>

NextLong ==
    \/ \E tx \in Affordable(LongTxs, MaxLongOps) : Commit(tx)
    \/ \E max \in MaxArgs : FlushJournal(max)
    \/ Drop
    \/ Open

SpecLong == InitLong /\ [][NextLong]_vars

\* ------------------------------------------- a run with compactions
\* a transaction that fills the prefix 0 with three keys and the prefix 1
\* with one, a later insert and a later delete of a key of the prefix 0
CompactTxs ==
    {<<InsertOp(0, 1), InsertOp(1, 1), InsertOp(2, 1), InsertOp(32, 1)>>,
     <<InsertOp(0, 2)>>, <<DeleteOp(0)>>}

NextCompact ==
    \/ \E tx \in Affordable(CompactTxs, MaxCompactOps) : Commit(tx)
    \/ \E max \in MaxArgs : FlushJournal(max)
    \/ Compact
    \/ Drop
    \/ Open

SpecCompact == Init /\ [][NextCompact]_vars

\* the same run, in which the process may die inside compact and the
\* database is opened again
NextCompactCrash ==
    \/ \E tx \in Affordable(CompactTxs, MaxCompactOps) : Commit(tx)
    \/ \E max \in MaxArgs : FlushJournal(max)
    \/ Compact
    \/ \E point \in CompactCrashPoints : CompactCrash(point)
    \/ Open

SpecCompactCrash == Init /\ [][NextCompactCrash]_vars

\* --------------------------------------------------- functions run alone
\* no database: the state of the files and of the handle while one function
\* is run on the arguments held by probe
Idle ==
    /\ data = <<>>
    /\ metaFile = EmptyMetadata
    /\ eraFiles = <<>>
    /\ flushFile = <<>>
    /\ open = FALSE
    /\ eras = <<>>
    /\ next_era_index = 0
    /\ metadata = EmptyMetadata
    /\ journal_eras = 0
    /\ hist = <<>>
    /\ preNone = {}
    /\ pending = <<>>
    /\ fold = <<>>
    /\ crashes = 0
    /\ used = 0
    /\ replayed = <<>>
    /\ collision = <<>>
    /\ migrated = <<>>
    /\ ret = NoCall
    /\ txn = <<>>
    /\ view = <<>>

IdleVars == <<data, metaFile, eraFiles, flushFile, open, eras, next_era_index,
              metadata, journal_eras, hist, preNone, pending, fold, crashes,
              used, replayed, collision, migrated, ret, txn, view>>

\* ------------------------------------------- the planner, step by step
\* key-sorted operation lists of up to MaxWriterOps operations
SortedLists(S, n) ==
    {s \in UNION {[1..m -> S] : m \in 0..n} :
        \A i \in 1..(Len(s) - 1) : s[i].k <= s[i + 1].k}

\* the data file and the metadata after a flush of the operations ops
Flushed(d, md, ops) ==
    LET pl == run(d, md, ops)
    IN  [d |-> Flush_flush(d, pl.entries), md |-> pl.meta, panic |-> pl.panic]

\* data files a database reaches: an era of inserts with distinct keys
\* flushed into the created file, then an era of deletes
StoredFiles ==
    {Flushed(Flushed([i \in 1..NFields |-> UninitField], EmptyMetadata, ins).d,
             Flushed([i \in 1..NFields |-> UninitField], EmptyMetadata, ins).md,
             del) :
        ins \in {s \in SortedLists({InsertOp(k, 1) : k \in Keys}, 3) :
                    \A i \in 1..(Len(s) - 1) : s[i].k < s[i + 1].k},
        del \in SortedLists({DeleteOp(k) : k \in Keys}, 1)}

\* OperationWriter::new on a stored file and a key-sorted operation list
InitWriter ==
    /\ Idle
    /\ \E f \in StoredFiles, ops \in SortedLists(Ops, MaxWriterOps) :
          probe = [fn |-> "writer", d |-> f.d, ops |-> ops,
                   w |-> NewWriter(ops, f.md)]

\* a loop that stops calling step once an operation has been consumed
WriterStepsToFirst ==
    /\ probe.fn = "writer"
    /\ probe.w.st # "Finished"
    /\ probe.w.ops = probe.ops
    /\ probe' = [probe EXCEPT !.w = step(probe.d, probe.w)]
    /\ UNCHANGED IdleVars

\* one call of OperationWriter::step by the loop of run
WriterStep ==
    /\ probe.fn = "writer"
    /\ probe.w.st # "Finished"
    /\ probe' = [probe EXCEPT !.w = step(probe.d, probe.w)]
    /\ UNCHANGED IdleVars

NextWriter == WriterStep

SpecWriter == InitWriter /\ [][NextWriter]_vars

\* run calls step in a loop until it returns Finished
SpecWriterFair == SpecWriter /\ WF_vars(WriterStep)

\* --------------------------------------------------------------- options.rs
\* ErrorKind::InvalidOptions, as from_external builds it
InvalidOptions == [err |-> "InvalidOptions", expected |-> 0, got |-> 0]

\* field::HEADER_SIZE
HEADER_SIZE == 1

\* the option sets handed to create: the ends of the accepted ranges and
\* their neighbours
ExternalOptions ==
    [extend_threshold_percent : {0, 1, 100, 101},
     key_index_bits : {0, 1, 8, 9, 32, 33},
     key_len : {0, 1, 4, 5},
     value_len : {0, 1}]

\* from_external without the comparison of key_index_bits with the key length
from_external_loose(external) ==
    IF external.extend_threshold_percent > 100
           \/ external.extend_threshold_percent = 0
    THEN [res |-> InvalidOptions, options |-> <<>>]
    ELSE IF external.key_index_bits > 32 \/ external.key_index_bits = 0
    THEN [res |-> InvalidOptions, options |-> <<>>]
    ELSE [res |-> Ok, options |-> <<external>>]

\* InternalOptions::from_external.  initial_db_size is
\* (2u64 << key_index_bits + 1) * record_offset, where + binds tighter than
\* <<: the size is kept as its two factors, 2^log2_fields fields of
\* record_offset bytes (2 << n is 2^(n + 1); below 2^64 for every accepted
\* key_index_bits).
from_external(external) ==
    IF external.extend_threshold_percent > 100
           \/ external.extend_threshold_percent = 0
    THEN [res |-> InvalidOptions, options |-> <<>>]
    ELSE IF external.key_index_bits > external.key_len * 8
    THEN [res |-> InvalidOptions, options |-> <<>>]
    ELSE IF external.key_index_bits > 32 \/ external.key_index_bits = 0
    THEN [res |-> InvalidOptions, options |-> <<>>]
    ELSE LET body == external.key_len + external.value_len
             offset == body + HEADER_SIZE
         IN  [res |-> Ok,
              options |-> <<[external |-> external,
                             field_body_size |-> body,
                             record_offset |-> offset,
                             initial_db_size |->
                                 [log2_fields |-> (external.key_index_bits + 1) + 1,
                                  record_offset |-> offset]]>>]

\* Database::create and Database::open begin with from_external and return
\* its error; probe keeps the options and the outcome
FromExternal ==
    /\ probe.fn = "from_external"
    /\ probe.ret = <<>>
    /\ probe' = [probe EXCEPT !.ret = <<from_external(probe.external)>>]
    /\ UNCHANGED IdleVars

InitOptions ==
    /\ Idle
    /\ probe \in [fn : {"from_external"}, external : ExternalOptions, ret : {<<>>}]

NextOptions == FromExternal

SpecOptions == InitOptions /\ [][NextOptions]_vars

\* ------------------------------------------ metadata.rs: the bytes
\* PrefixTree::leaf_data_len: the bytes of a bit-vector of 2^prefix_bits bits
leaf_data_len(prefix_bits) == ((2 ^ prefix_bits) + 7) \div 8

\* metadata::bytes::len
bytes_len(prefix_bits) ==
    2 + 8 + ((2 ^ prefix_bits) \div 8) + leaf_data_len(prefix_bits)

\* BitVec::storage and PrefixTree::leaves: the bits of the set s among
\* nbits, eight to a byte, the lowest index in the lowest bit
BitBytes(s, nbits) ==
    [j \in 1..((nbits + 7) \div 8) |->
        LET b(i) == IF (8 * (j - 1) + i) \in s /\ 8 * (j - 1) + i < nbits
                    THEN 2 ^ i ELSE 0
        IN  b(0) + b(1) + b(2) + b(3) + b(4) + b(5) + b(6) + b(7)]

\* the indices below nbits of the bits set in the bytes bs
BytesBits(bs, nbits) ==
    {n \in 0..(nbits - 1) :
        /\ (n \div 8) + 1 <= Len(bs)
        /\ (bs[(n \div 8) + 1] \div (2 ^ (n % 8))) % 2 = 1}

\* bytes::Metadata::copy_to_slice into a zeroed slice of bytes_len bytes:
\* version, occupied_bytes, the storage of collided_prefixes and the
\* leaves are written through a cursor that stops at the end of the slice
copy_to_slice(md, prefix_bits) ==
    LET all == <<0, 0>>
               \o <<md.occupied_bytes % 256, (md.occupied_bytes \div 256) % 256,
                    0, 0, 0, 0, 0, 0>>
               \o BitBytes(md.collided_prefixes, 2 ^ prefix_bits)
               \o BitBytes(md.prefixes, 2 ^ prefix_bits)
    IN  [i \in 1..bytes_len(prefix_bits) |-> IF i <= Len(all) THEN all[i] ELSE 0]

\* metadata::bytes::read
bytes_read(bs, prefix_bits) ==
    LET clen == (2 ^ prefix_bits) \div 8
    IN  [occupied_bytes |-> bs[3] + 256 * bs[4],
         collided_prefixes |->
             BytesBits(SubSeq(bs, 11, 10 + clen), 2 ^ prefix_bits),
         prefixes |->
             BytesBits(SubSeq(bs, 11 + clen,
                              10 + clen + leaf_data_len(prefix_bits)),
                       2 ^ prefix_bits)]

\* ------------------------------- create, insert, commit, flush, get
\* Key::new: the prefix of a key is its leading prefix_bits bits
Key_prefix(key, prefix_bits) == key[1] \div (2 ^ (8 - prefix_bits))

\* the bytes of a key read as one number: the order of keys of one length
KeyNum(key) ==
    IF Len(key) = 1 THEN key[1]
    ELSE IF Len(key) = 2 THEN 256 * key[1] + key[2]
    ELSE 65536 * key[1] + 256 * key[2] + key[3]

\* the arguments the property test keeps: key_index_bits from 1 up to the
\* number of bytes of the key
QuickKeys == UNION {[1..n -> {0, 255}] : n \in 1..MaxKeyLen}
QuickValues == {<<>>, <<7>>}
QuickArgs ==
    {a \in [key : QuickKeys, value : QuickValues, key_index_bits : 1..MaxKeyLen] :
        a.key_index_bits <= Len(a.key)}

InitQuick ==
    /\ Idle
    /\ \E a \in QuickArgs :
          probe = [fn |-> "quickcheck", args |-> a, stage |-> "start",
                   options |-> <<>>, data |-> <<>>, meta |-> <<>>,
                   metadata |-> EmptyMetadata, eras |-> <<>>, ret |-> <<>>]

\* Database::create: the options are checked, data.db and meta.db are
\* created with their lengths, zeroed, and open_internal reads the metadata
QuickCreate ==
    /\ probe.fn = "quickcheck"
    /\ probe.stage = "start"
    /\ LET o == from_external([extend_threshold_percent |-> 80,
                               key_index_bits |-> probe.args.key_index_bits,
                               key_len |-> Len(probe.args.key),
                               value_len |-> Len(probe.args.value)])
           bits == probe.args.key_index_bits
           zeros == [i \in 1..bytes_len(bits) |-> 0]
       IN  /\ o.res = Ok
           /\ probe' = [probe EXCEPT
                  !.stage = "created",
                  !.options = o.options,
                  !.data = [i \in 1..(2 ^ o.options[1].initial_db_size.log2_fields)
                               |-> UninitField],
                  !.meta = zeros,
                  !.metadata = bytes_read(zeros, bits)]
    /\ UNCHANGED IdleVars

\* Transaction::insert and Database::commit: the era of the one insert
QuickCommit ==
    /\ probe.fn = "quickcheck"
    /\ probe.stage = "created"
    /\ probe' = [probe EXCEPT
           !.stage = "committed",
           !.eras = <<[idx |-> 0,
                       ops |-> <<InsertOp(KeyNum(probe.args.key),
                                          probe.args.value)>>]>>]
    /\ UNCHANGED IdleVars

\* Database::flush_journal(None) with journal_eras = 0: the planner writes
\* the record at the offset of its prefix into the overwrite list and
\* appends the bytes of the new metadata; Flush::flush copies the
\* overwrites into data.db and the metadata bytes into meta.db, and the
\* metadata of the handle is the one these bytes hold
QuickFlush ==
    /\ probe.fn = "quickcheck"
    /\ probe.stage = "committed"
    /\ LET bits == probe.args.key_index_bits
           op == probe.eras[1].ops[1]
           prefix == Key_prefix(probe.args.key, bits)
           s == SpacePeek(probe.data, prefix + 1)
           md == insert_record(probe.metadata, prefix,
                               probe.options[1].record_offset)
           tail == copy_to_slice(md, bits)
       IN  /\ s.t = "Empty"
           /\ probe' = [probe EXCEPT
                  !.stage = "flushed",
                  !.data = Flush_flush(probe.data,
                               <<[off |-> s.off,
                                  fields |-> <<RecordField(op.k, op.v)>>]>>),
                  !.meta = tail,
                  !.metadata = bytes_read(tail, bits),
                  !.eras = <<>>]
    /\ UNCHANGED IdleVars

\* Database::get(key): the journal, the prefix bit, the bucket; <<v>> is
\* Some(v) and <<>> is None
QuickGet ==
    /\ probe.fn = "quickcheck"
    /\ probe.stage = "flushed"
    /\ LET bits == probe.args.key_index_bits
           k == KeyNum(probe.args.key)
           prefix == Key_prefix(probe.args.key, bits)
           r == find_record(probe.data, prefix + 1, k)
       IN  probe' = [probe EXCEPT
               !.stage = "got",
               !.ret = IF cache_memory(IF probe.eras = <<>> THEN <<>>
                                       ELSE probe.eras[1].ops, k).t = "Insert"
                       THEN <<probe.args.value>>
                       ELSE IF prefix \notin probe.metadata.prefixes THEN <<>>
                       ELSE IF r.r = "Found" THEN <<r.v>>
                       ELSE <<>>]
    /\ UNCHANGED IdleVars

NextQuick ==
    \/ QuickCreate
    \/ QuickCommit
    \/ QuickFlush
    \/ QuickGet

SpecQuick == InitQuick /\ [][NextQuick]_vars

\* ------------------------------ runs with an incomplete flush file
\* commits, folds, deaths of the process inside Flush::new and between two
\* calls, and opens of a directory with and without a db.flush
NextCorrupt ==
    \/ \E tx \in Affordable(Txs, MaxCorruptOps) : Commit(tx)
    \/ \E max \in MaxArgs : FlushJournal(max)
    \/ FlushNewCrash
    \/ Crash
    \/ Open
    \/ OpenCorrupted
    \/ FlushOpen

SpecCorrupt == Init /\ [][NextCorrupt]_vars

\* ------------------------------------- the building of a transaction
\* insert and delete with keys of every length, and get
NextTx ==
    \/ \E key \in TxKeys, value \in Values : TxInsert(key, value)
    \/ \E key \in TxKeys : TxDelete(key)
    \/ TxNew
    \/ \E key \in TxKeys : GetKey(key)

SpecTx == Init /\ [][NextTx]_vars

NextRootTx ==
    \/ \E key \in TxKeys, value \in Values : RootTxInsert(key, value)
    \/ \E key \in TxKeys : RootTxDelete(key)
    \/ TxNew
    \/ \E key \in TxKeys : GetKey(key)

SpecRootTx == Init /\ [][NextRootTx]_vars

\* ------------------------------- the application of a flush file
\* A data file and a flush file drawn freely: the first fields of data.db,
\* and up to MaxEntries overwrite entries that may overlap.
ReplayFields == {UninitField, RecordField(0, 1)}
ReplayData ==
    {[i \in 1..NFields |-> IF i <= 3 THEN f[i] ELSE UninitField] :
        f \in [1..3 -> ReplayFields]}
EntryFields == {RecordField(2, 1), DeletedField}
ReplayEntries ==
    {[off |-> o, fields |-> fs] :
        o \in 1..2, fs \in UNION {[1..n -> EntryFields] : n \in 1..2}}
ReplayLists == UNION {[1..n -> ReplayEntries] : n \in 1..MaxEntries}
ReplayMetas == {EmptyMetadata, insert_record(EmptyMetadata, 0, record_offset)}

\* The process died inside flush_journal with db.flush written: before
\* Flush::flush, or after Flush::flush and before flush.delete.
InitReplay ==
    \E d0 \in ReplayData, L \in ReplayLists, m \in ReplayMetas, applied \in BOOLEAN :
        /\ data = IF applied THEN Flush_flush(d0, L) ELSE d0
        /\ metaFile = IF applied THEN m ELSE EmptyMetadata
        /\ eraFiles = <<>>
        /\ flushFile = <<[sum_ok |-> TRUE, entries |-> L, meta |-> m]>>
        /\ open = FALSE
        /\ eras = <<>>
        /\ next_era_index = 0
        /\ metadata = EmptyMetadata
        /\ journal_eras = 0
        /\ hist = <<>>
        /\ preNone = {}
        /\ pending = <<>>
        /\ fold = <<[idx |-> 0, entries |-> L, data |-> Flush_flush(d0, L),
                     meta |-> m]>>
        /\ crashes = 0
        /\ used = 0
        /\ replayed = <<>>
        /\ collision = <<>>
        /\ migrated = <<>>
        /\ probe = <<>>
        /\ ret = NoCall
        /\ txn = <<>>
        /\ view = <<>>

NextReplay ==
    \/ OpenCrash
    \/ Open

SpecReplay == InitReplay /\ [][NextReplay]_vars

Get(k) == Database_get(eras, metadata, collision, data, k)

\* ------------------------------------------- record/append.rs, record.rs
\* bytes of the longest value framed
MaxValueLen == 2
\* the widest small field body; a body of sixteen bytes is tried as well
MaxFieldBody == 3

field_size(fbs) == fbs + HEADER_SIZE

\* byteorder: LittleEndian::write_u32 and LittleEndian::read_u32
write_u32(n) == [i \in 1..4 |-> (n \div (256 ^ (i - 1))) % 256]
read_u32(bs) == bs[1] + 256 * bs[2] + 65536 * bs[3] + 16777216 * bs[4]

\* append.rs RecordIterator::next, called until it gives None: inner is what is left
\* of key, length prefix and value, position the number of bytes given,
\* peeked the byte taken from inner when a header was given
RECURSIVE append_RecordIterator(_, _, _, _)
append_RecordIterator(inner, position, peeked, fs) ==
    IF peeked # <<>>
    THEN peeked \o append_RecordIterator(inner, position + 1, <<>>, fs)
    ELSE IF position % fs = 0
    THEN IF inner = <<>> THEN <<>>
         ELSE <<IF position = 0 THEN HEADER_INSERTED ELSE HEADER_CONTINUED>>
              \o append_RecordIterator(Tail(inner), position + 1, <<Head(inner)>>, fs)
    ELSE IF inner = <<>>
    THEN <<0>> \o append_RecordIterator(inner, position + 1, <<>>, fs)
    ELSE <<Head(inner)>> \o append_RecordIterator(Tail(inner), position + 1, <<>>, fs)

\* an append_record that leaves the length prefix out
append_record_without_len(buffer, key, value, fbs, const_value) ==
    buffer \o append_RecordIterator(key \o value, 0, <<>>, field_size(fbs))

\* append_record: the fields of the record are appended to the buffer
append_record(buffer, key, value, fbs, const_value) ==
    IF const_value
    THEN buffer \o append_RecordIterator(key \o value, 0, <<>>, field_size(fbs))
    ELSE buffer \o append_RecordIterator(key \o write_u32(Len(value)) \o value, 0,
                                  <<>>, field_size(fbs))

\* FieldsView::new and FieldsView::with_options
FieldsView_with_options(d, fbs, offset, len) ==
    [data |-> d, field_body_size |-> fbs, offset |-> offset, len |-> len]
FieldsView_new(d, fbs) ==
    FieldsView_with_options(d, fbs, 0, (Len(d) * fbs) \div (fbs + HEADER_SIZE))

\* FieldsView::split_at: both assertions panic
split_at(v, pos) ==
    IF v.len < pos \/ Len(v.data) < v.offset + pos
    THEN [panic |-> TRUE, left |-> <<>>, right |-> <<>>]
    ELSE [panic |-> FALSE,
          left |-> FieldsView_with_options(v.data, v.field_body_size,
                                           v.offset, pos),
          right |-> FieldsView_with_options(v.data, v.field_body_size,
                                            v.offset + pos, v.len - pos)]

\* FieldsView::copy_to_slice into a slice of v.len bytes (on_body_slice):
\* the rest of the field the view starts in, the whole fields, the head of
\* the last field; an index beyond the data panics
FieldsView_copy_to_slice(v) ==
    LET fbs == v.field_body_size
        ours0 == v.offset + (HEADER_SIZE * v.offset) \div fbs
        rem1 == IF v.offset % fbs # 0
                THEN Min(v.len, fbs - (v.offset % fbs)) ELSE 0
        ours1 == IF v.offset % fbs # 0 THEN ours0 + HEADER_SIZE + rem1 ELSE ours0
        fields == (v.len - rem1) \div fbs
        theirs2 == rem1 + fields * fbs
        ours2 == ours1 + fields * (HEADER_SIZE + fbs)
        rem3 == v.len - theirs2
        end == IF rem3 # 0 THEN ours2 + HEADER_SIZE + rem3 ELSE ours2
        at(theirs) ==
            IF theirs < rem1 THEN ours0 + HEADER_SIZE + theirs
            ELSE IF theirs < theirs2
            THEN ours1 + ((theirs - rem1) \div fbs) * (HEADER_SIZE + fbs)
                 + HEADER_SIZE + ((theirs - rem1) % fbs)
            ELSE ours2 + HEADER_SIZE + (theirs - theirs2)
    IN  IF end > Len(v.data) THEN [panic |-> TRUE, slice |-> <<>>]
        ELSE [panic |-> FALSE,
              slice |-> [i \in 1..v.len |-> v.data[at(i - 1) + 1]]]

\* the value modes of a record: ValueSize::Variable, ValueSize::Constant(n)
Variable == [mode |-> "Variable", size |-> 0]
Constant(n) == [mode |-> "Constant", size |-> n]
Record_HEADER_SIZE == 4

\* Record::new
Record_new(d, fbs, value_size, key_size) ==
    LET kr == split_at(FieldsView_new(d, fbs), key_size)
        lost == [panic |-> TRUE, key |-> <<>>, value |-> <<>>, len |-> 0]
    IN  IF kr.panic THEN lost
        ELSE IF value_size.mode = "Constant"
        THEN LET vr == split_at(kr.right, value_size.size)
             IN  IF vr.panic THEN lost
                 ELSE [panic |-> FALSE, key |-> kr.left, value |-> vr.left,
                       len |-> value_size.size]
        ELSE LET hr == split_at(kr.right, Record_HEADER_SIZE)
             IN  IF hr.panic THEN lost
                 ELSE IF FieldsView_copy_to_slice(hr.left).panic THEN lost
                 ELSE LET value_len ==
                              read_u32(FieldsView_copy_to_slice(hr.left).slice)
                          vr == split_at(hr.right, value_len)
                      IN  IF vr.panic THEN lost
                          ELSE [panic |-> FALSE, key |-> kr.left,
                                value |-> vr.left, len |-> value_len]

\* the records framed: keys of 1..MaxKeyLen bytes, values of 0..MaxValueLen
\* bytes, field bodies of 1..MaxFieldBody bytes and of sixteen
RecordBytes == {0, 2}
RecordKeys == UNION {[1..n -> RecordBytes] : n \in 1..MaxKeyLen}
RecordValues == UNION {[1..n -> RecordBytes] : n \in 0..MaxValueLen}
FieldBodySizes == (1..MaxFieldBody) \cup {16}

InitRecord ==
    /\ Idle
    /\ probe \in [fn : {"record"}, key : RecordKeys, value : RecordValues,
                  field_body_size : FieldBodySizes, const_value : BOOLEAN,
                  stage : {"input"}, buffer : {<<>>}, ret : {<<>>}]

\* append_record(&mut buffer, key, value, field_body_size, const_value)
AppendRecord ==
    /\ probe.fn = "record"
    /\ probe.stage = "input"
    /\ probe' = [probe EXCEPT
                    !.stage = "appended",
                    !.buffer = append_record(probe.buffer, probe.key,
                                             probe.value,
                                             probe.field_body_size,
                                             probe.const_value)]
    /\ UNCHANGED IdleVars

\* Record::new on the buffer, then read_key and read_value into slices of
\* the lengths of the views
ReadRecord ==
    /\ probe.fn = "record"
    /\ probe.stage = "appended"
    /\ LET r == Record_new(probe.buffer, probe.field_body_size,
                           IF probe.const_value
                           THEN Constant(Len(probe.value)) ELSE Variable,
                           Len(probe.key))
       IN  probe' = [probe EXCEPT
                        !.stage = "read",
                        !.ret =
                            IF r.panic THEN <<[panic |-> TRUE]>>
                            ELSE IF FieldsView_copy_to_slice(r.key).panic
                                    \/ FieldsView_copy_to_slice(r.value).panic
                            THEN <<[panic |-> TRUE]>>
                            ELSE <<[panic |-> FALSE,
                                    key |-> FieldsView_copy_to_slice(r.key).slice,
                                    value |-> FieldsView_copy_to_slice(r.value).slice,
                                    len |-> r.len]>>]
    /\ UNCHANGED IdleVars

NextRecord ==
    \/ AppendRecord
    \/ ReadRecord

SpecRecord == InitRecord /\ [][NextRecord]_vars

\* ------------------------------- metadata.rs: the bytes, written and read
\* the highest key_index_bits whose metadata is written and read
MaxPrefixBits == 3

\* the bytes bytes::Metadata::copy_to_slice hands to its cursor
written_len(md, prefix_bits) ==
    2 + 8 + Len(BitBytes(md.collided_prefixes, 2 ^ prefix_bits))
          + Len(BitBytes(md.prefixes, 2 ^ prefix_bits))

\* the sets of prefixes tried: none, one, all
PrefixSets(prefix_bits) ==
    {{}} \cup {{p} : p \in 0..((2 ^ prefix_bits) - 1)}
         \cup {0..((2 ^ prefix_bits) - 1)}

InitMetadata ==
    /\ Idle
    /\ \E bits \in 1..MaxPrefixBits, o \in {0, 3, 300} :
       \E ps \in PrefixSets(bits), cs \in PrefixSets(bits) :
          probe = [fn |-> "metadata", prefix_bits |-> bits,
                   metadata |-> [occupied_bytes |-> o, prefixes |-> ps,
                                 collided_prefixes |-> cs],
                   stage |-> "input", bytes |-> <<>>, ret |-> <<>>]

\* metadata.as_bytes().copy_to_slice(raw) on a zeroed slice of len() bytes
MetadataWrite ==
    /\ probe.fn = "metadata"
    /\ probe.stage = "input"
    /\ probe' = [probe EXCEPT
                    !.stage = "written",
                    !.bytes = copy_to_slice(probe.metadata, probe.prefix_bits)]
    /\ UNCHANGED IdleVars

\* metadata::bytes::read(raw, prefix_bits)
MetadataRead ==
    /\ probe.fn = "metadata"
    /\ probe.stage = "written"
    /\ probe' = [probe EXCEPT
                    !.stage = "read",
                    !.ret = <<bytes_read(probe.bytes, probe.prefix_bits)>>]
    /\ UNCHANGED IdleVars

NextMetadata ==
    \/ MetadataWrite
    \/ MetadataRead

SpecMetadata == InitMetadata /\ [][NextMetadata]_vars

\* ------------------------------- transaction.rs: the operation log
\* operations staged in a transaction whose log is iterated
MaxLogOps == 2
\* Operation::INSERT and Operation::DELETE
INSERT == 0
DELETE == 1

\* a write_to_buf that leaves the length of the value out of an Insert
write_to_buf_without_value_len(op, buf) ==
    IF op.t = "Insert"
    THEN buf \o <<INSERT>> \o write_u32(Len(op.k)) \o op.k \o op.v
    ELSE buf \o <<DELETE>> \o write_u32(Len(op.k)) \o op.k

\* Operation::write_to_buf
write_to_buf(op, buf) ==
    IF op.t = "Insert"
    THEN buf \o <<INSERT>> \o write_u32(Len(op.k)) \o write_u32(Len(op.v))
             \o op.k \o op.v
    ELSE buf \o <<DELETE>> \o write_u32(Len(op.k)) \o op.k

\* the slice d[from..to] of Rust, from and to counted from 0; a range that
\* leaves the data panics
Slice(d, from, to) ==
    IF from > to \/ to > Len(d) THEN [panic |-> TRUE, slice |-> <<>>]
    ELSE [panic |-> FALSE, slice |-> SubSeq(d, from + 1, to)]

\* OperationsIterator::next: None at the end of the data, the operation at
\* the head of the data and the data after it, or a panic
OperationsIterator_next(d) ==
    LET lost == [panic |-> TRUE, item |-> <<>>, data |-> d]
    IN  IF d = <<>> THEN [panic |-> FALSE, item |-> <<>>, data |-> d]
        ELSE IF d[1] = INSERT
        THEN IF Slice(d, 1, 5).panic \/ Slice(d, 5, 9).panic THEN lost
             ELSE LET key_len == read_u32(Slice(d, 1, 5).slice)
                      value_len == read_u32(Slice(d, 5, 9).slice)
                      key_end == 9 + key_len
                      value_end == key_end + value_len
                  IN  IF Slice(d, 9, key_end).panic
                         \/ Slice(d, key_end, value_end).panic THEN lost
                      ELSE [panic |-> FALSE,
                            item |-> <<InsertOp(Slice(d, 9, key_end).slice,
                                                Slice(d, key_end, value_end).slice)>>,
                            data |-> Slice(d, value_end, Len(d)).slice]
        ELSE IF d[1] = DELETE
        THEN IF Slice(d, 1, 5).panic THEN lost
             ELSE LET key_len == read_u32(Slice(d, 1, 5).slice)
                      key_end == 5 + key_len
                  IN  IF Slice(d, 5, key_end).panic THEN lost
                      ELSE [panic |-> FALSE,
                            item |-> <<DeleteOp(Slice(d, 5, key_end).slice)>>,
                            data |-> Slice(d, key_end, Len(d)).slice]
        ELSE lost

\* keys of one and two bytes for a transaction of key_len 1 or 2, values of
\* up to two bytes; the bytes are the two operation tags
LogKeys == {<<0>>, <<1>>, <<1, 0>>}
LogValues == {<<>>, <<0>>, <<1, 0>>}

InitLog ==
    /\ Idle
    /\ \E n \in {1, 2} :
          probe = [fn |-> "transaction", key_len |-> n, staged |-> <<>>,
                   operations |-> <<>>, stage |-> "staging", data |-> <<>>,
                   yielded |-> <<>>, ret |-> <<>>]

\* tx.insert(key, value): refused on a key of another length, else pushed
LogInsert(key, value) ==
    /\ probe.fn = "transaction"
    /\ probe.stage = "staging"
    /\ Len(probe.staged) < MaxLogOps
    /\ probe' =
          IF Len(key) # probe.key_len
          THEN [probe EXCEPT !.ret = <<InvalidKeyLen(probe.key_len, Len(key))>>]
          ELSE [probe EXCEPT
                   !.ret = <<Ok>>,
                   !.staged = Append(@, InsertOp(key, value)),
                   !.operations = write_to_buf(InsertOp(key, value), @)]
    /\ UNCHANGED IdleVars

\* tx.delete(key)
LogDelete(key) ==
    /\ probe.fn = "transaction"
    /\ probe.stage = "staging"
    /\ Len(probe.staged) < MaxLogOps
    /\ probe' =
          IF Len(key) # probe.key_len
          THEN [probe EXCEPT !.ret = <<InvalidKeyLen(probe.key_len, Len(key))>>]
          ELSE [probe EXCEPT
                   !.ret = <<Ok>>,
                   !.staged = Append(@, DeleteOp(key)),
                   !.operations = write_to_buf(DeleteOp(key), @)]
    /\ UNCHANGED IdleVars

\* tx.operations(): an iterator over the log
LogOperations ==
    /\ probe.fn = "transaction"
    /\ probe.stage = "staging"
    /\ probe' = [probe EXCEPT !.stage = "iterating", !.data = probe.operations,
                              !.ret = <<>>]
    /\ UNCHANGED IdleVars

\* operations.next()
LogNext ==
    /\ probe.fn = "transaction"
    /\ probe.stage = "iterating"
    /\ LET n == OperationsIterator_next(probe.data)
       IN  probe' = [probe EXCEPT
                        !.stage = IF n.panic THEN "panic"
                                  ELSE IF n.item = <<>> THEN "ended"
                                  ELSE "iterating",
                        !.data = n.data,
                        !.yielded = @ \o n.item]
    /\ UNCHANGED IdleVars

NextLog ==
    \/ \E key \in LogKeys, value \in LogValues : LogInsert(key, value)
    \/ \E key \in LogKeys : LogDelete(key)
    \/ LogOperations
    \/ LogNext

SpecLog == InitLog /\ [][NextLog]_vars

\* ------------------------------------------------------------ properties
DistinctKeys(tx) == \A i, j \in 1..Len(tx) : i # j => tx[i].k # tx[j].k
LastTx == hist[Len(hist)]
\* what get is to answer after an operation
Expected(o) == IF o.t = "Insert" THEN o.v ELSE NoneV
\* every committed transaction has pairwise distinct keys
EveryTxDistinct == \A i \in 1..Len(hist) : DistinctKeys(hist[i])
\* the handle is the one create returned: the process never died
NeverCrashed == open /\ crashes = 0

\* C1: after the commit of a transaction with pairwise distinct keys, and
\* until the next call of commit, get gives v for each of its Insert(k, v)
\* and None for each of its Delete(k) whose key get gave None for before
\* the commit, whatever flush_journal calls happen in between.  (Stated for
\* runs in which every committed transaction has distinct keys.)
C1_CommittedVisible ==
    (NeverCrashed /\ hist # <<>> /\ EveryTxDistinct) =>
        \A i \in 1..Len(LastTx) :
            /\ LastTx[i].t = "Insert" => Get(LastTx[i].k) = LastTx[i].v
            /\ (LastTx[i].t = "Delete" /\ LastTx[i].k \in preNone)
                   => Get(LastTx[i].k) = NoneV

\* a call of flush_journal that drained at least one era and returned
FlushReturned == open /\ open' /\ Len(eras') < Len(eras)
\* a call of open that returned a handle
Reopened == ~open /\ open'

\* C2: a flush_journal call, with any max, leaves the answer of get
\* unchanged for every key.  (Stated for runs in which every committed
\* transaction has distinct keys.)
C2_FlushKeepsGet ==
    [][(FlushReturned /\ NeverCrashed /\ EveryTxDistinct) =>
          \A k \in Keys : Get(k)' = Get(k)]_vars

\* the record of key k is live in data.db
StoredLive(k) ==
    /\ PrefixOf(k) \in metadata.prefixes
    /\ find_record(data, KeyOffset(k), k).r = "Found"

\* the newest operation on key k among the eras es, NoOp when there is none
RECURSIVE NewestOp(_, _)
NewestOp(es, k) ==
    IF es = <<>> THEN NoOp
    ELSE IF cache_memory(es[Len(es)].ops, k).t # "None"
         THEN cache_memory(es[Len(es)].ops, k)
    ELSE NewestOp(SubSeq(es, 1, Len(es) - 1), k)

\* C3: a key that is live in data.db and whose newest operation in the
\* journal is a Delete reads as None.
C3_TombstoneShadowsStorage ==
    (NeverCrashed /\ EveryTxDistinct) => \A k \in Keys :
        (StoredLive(k) /\ NewestOp(eras, k).t = "Delete") => Get(k) = NoneV

\* the transactions committed so far that operate on key k
TxsOn(k) == {i \in 1..Len(hist) : \E j \in 1..Len(hist[i]) : hist[i][j].k = k}
Newest(S) == CHOOSE i \in S : \A j \in S : j <= i

\* C4: when two or more committed transactions (each with distinct keys)
\* operate on a key, get answers as the latest of them says, whichever of
\* their eras have been flushed.
C4_LastWriteWinsAcross ==
    (NeverCrashed /\ EveryTxDistinct) =>
        \A k \in Keys :
            Cardinality(TxsOn(k)) >= 2 =>
                Get(k) = Expected(cache_memory(hist[Newest(TxsOn(k))], k))

\* C5: when the only committed transaction holds several operations on a
\* key, get answers as the last of them says, while the era is in the
\* journal and after it has been flushed.
C5_LastWriteWinsWithin ==
    (NeverCrashed /\ Len(hist) = 1) =>
        \A k \in Keys :
            Cardinality({j \in 1..Len(hist[1]) : hist[1][j].k = k}) >= 2 =>
                Get(k) = Expected(cache_memory(hist[1], k))

\* the era file of the last committed transaction is on disk
LastEraOnDisk ==
    /\ hist # <<>>
    /\ pending = <<>>
    /\ eraFiles # <<>>

\* C6: when the process died after a commit returned and before its era was
\* flushed, get answers after the reopen as every operation of that
\* transaction says.  (Stated for runs in which every committed
\* transaction has distinct keys.)
C6_CommitDurable ==
    [][(Reopened /\ LastEraOnDisk /\ EveryTxDistinct) =>
          \A i \in 1..Len(LastTx) :
              Get(LastTx[i].k)' = Expected(LastTx[i])]_vars

\* the eras of the handle but the one the interrupted commit wrote
ErasBut(idx) == SelectSeq(eras, LAMBDA e : e.idx # idx)
InterruptedEraLoaded ==
    /\ open
    /\ pending # <<>>
    /\ \E i \in 1..Len(eras) : eras[i].idx = pending[1].idx

\* C7: after a reopen that follows a crash inside commit(tx), get answers
\* for all keys as if tx had been committed whole, or for all keys as if
\* it had not been committed.  (Stated for transactions of distinct keys.)
C7_CommitAtomic ==
    (InterruptedEraLoaded /\ EveryTxDistinct /\ DistinctKeys(pending[1].tx)) =>
        LET base == ErasBut(pending[1].idx)
            whole == Append(base, [idx |-> pending[1].idx, ops |-> pending[1].tx])
        IN  \/ \A k \in Keys : Get(k) = Database_get(base, metadata, collision, data, k)
            \/ \A k \in Keys : Get(k) = Database_get(whole, metadata, collision, data, k)

\* C8: an open that finds a durable flush file applies it whole and deletes
\* it before it returns, and leaves data.db, meta.db and the handle's
\* metadata as the uninterrupted flush would have; no handle coexists with
\* a flush file.
C8_ReplayOnOpen ==
    [][(Reopened /\ FlushDurable) =>
          /\ flushFile' = <<>>
          /\ data' = fold[1].data
          /\ metaFile' = fold[1].meta
          /\ metadata' = fold[1].meta]_vars

\* C8 is reached: an open has applied a flush file that changed data.db
C8_Witness ==
    /\ open
    /\ replayed # <<>>
    /\ replayed[1] # data
    /\ fold[1].entries # <<>>
    /\ data = fold[1].data
    /\ metadata = fold[1].meta

\* the flush file had been applied to data.db and meta.db
FlushApplied == data = fold[1].data /\ metaFile = fold[1].meta

\* C9: applying a flush file to data to which it has been applied changes
\* nothing, also when its entries overlap: an open that finds db.flush
\* after its overwrites reached data.db and meta.db leaves both files as
\* they were, and applying the entries to the result of any replay gives
\* that result.
C9_ReplayIdempotent ==
    [][(Reopened /\ FlushDurable) =>
          /\ Flush_flush(data', flushFile[1].entries) = data'
          /\ FlushApplied => (data' = data /\ metaFile' = metaFile)]_vars

\* two entries of the list write different fields to one place
OverlapDiffer(L) ==
    \E i, j \in 1..Len(L) :
        /\ i < j
        /\ \E p \in 1..NFields :
              /\ p >= L[i].off /\ p < L[i].off + Len(L[i].fields)
              /\ p >= L[j].off /\ p < L[j].off + Len(L[j].fields)
              /\ L[i].fields[p - L[i].off + 1] # L[j].fields[p - L[j].off + 1]

\* C9 is reached: an open died after it applied overlapping entries, and
\* the next open has applied them again to the same data
C9_Witness ==
    /\ open
    /\ crashes = 1
    /\ replayed # <<>>
    /\ replayed[1] = data
    /\ OverlapDiffer(fold[1].entries)

\* the file of the era last folded is gone
FoldedEraGone == fold # <<>> /\ fold[1].idx \notin DOMAIN eraFiles

\* the order of the per-era steps as a state invariant: whenever the file of
\* the era last folded is gone, db.flush is gone too and data.db and meta.db
\* hold the result of that fold
EraDeletedLast ==
    FoldedEraGone =>
        /\ flushFile = <<>>
        /\ data = fold[1].data
        /\ metaFile = fold[1].meta

\* C10: the file of a folded era is removed only after its flush file has
\* been applied and deleted, so that an era file is never gone while its
\* effects are neither in data.db nor brought there by the next open: after
\* every open that finds the file of the era last folded gone, data.db and
\* meta.db hold the result of that fold.
C10_EraEffectsNotLost ==
    [][(Reopened /\ FoldedEraGone) =>
          (data' = fold[1].data /\ metaFile' = fold[1].meta)]_vars

\* what iter yields on the handle
IterNow == Database_iter(eras, metadata, data)
IterPairs == {<<IterNow[i].k, IterNow[i].v>> : i \in 1..Len(IterNow)}

\* C16: iter yields keys in strictly ascending order, no key twice.
C16_IterAscending ==
    open => \A i, j \in 1..Len(IterNow) : i < j => IterNow[i].k < IterNow[j].k

\* the newest committed operation on key k, NoOp when there is none
CommittedNewest(k) ==
    IF TxsOn(k) = {} THEN NoOp ELSE cache_memory(hist[Newest(TxsOn(k))], k)

\* C17: iter yields the pair (k, v) exactly when the newest committed
\* operation on k is Insert(k, v).
C17_IterMergedView ==
    NeverCrashed =>
        \A k \in Keys, v \in Values :
            <<k, v>> \in IterPairs <=> CommittedNewest(k) = InsertOp(k, v)

\* the field of data.db at index i holds a live record
Live(i) == data[i].h = HEADER_INSERTED

\* C18: the live records of data.db, in file order, have strictly
\* ascending keys within every prefix bucket, and none starts below the
\* offset of its prefix.
C18_BucketsAscending ==
    NeverCrashed =>
        /\ \A i, j \in 1..NFields :
              (i < j /\ Live(i) /\ Live(j)
                 /\ PrefixOf(data[i].k) = PrefixOf(data[j].k))
                  => data[i].k < data[j].k
        /\ \A i \in 1..NFields : Live(i) => i >= KeyOffset(data[i].k)

\* the number of eras the retention window lets a call with argument max fold
Window(len, max) ==
    IF len < journal_eras THEN 0
    ELSE IF max = NoMax THEN len - journal_eras
    ELSE Min(len - journal_eras, max)

\* C14: flush_journal(max) folds nothing when the journal holds fewer than
\* journal_eras eras; otherwise a call that returns Ok folds exactly
\* min(len - journal_eras, max) eras, the oldest ones: their files are
\* gone, the journal keeps the newest eras in their order, and at least
\* min(len, journal_eras) of them.
C14_RetentionWindow ==
    [][\A max \in MaxArgs :
          /\ Len(eras) < journal_eras => ~FlushJournal(max)
          /\ (FlushJournal(max) /\ open') =>
                LET n == Window(Len(eras), max)
                IN  /\ eras' = SubSeq(eras, n + 1, Len(eras))
                    /\ DOMAIN eraFiles' =
                          DOMAIN eraFiles \ {eras[i].idx : i \in 1..n}
                    /\ Len(eras') >= Min(Len(eras), journal_eras)]_vars

\* a flush_journal call with journal_eras = 2 folded an era and left two
C14_Witness ==
    /\ NeverCrashed
    /\ journal_eras = 2
    /\ fold # <<>>
    /\ Len(eras) = 2
    /\ Len(hist) > 2

\* a flush_journal call in which Flush::new returned an error
FlushFailed == \E max \in MaxArgs, j \in 1..MaxOps : FlushJournalFails(max, j)

\* C12: a flush_journal call that fails in Flush::new returns the error
\* and leaves data.db, meta.db, the metadata of the handle, the collision
\* files and the eras of the journal as they were.
C12_FlushErrorChangesNothing ==
    [][FlushFailed =>
          /\ ret'.res = IoError
          /\ UNCHANGED <<data, metaFile, metadata, collision, eras>>]_vars

C15_KeyLenValidated ==
    /\ \A i \in 1..Len(txn) : Len(txn[i].k) = Options.key_len
    /\ (ret.call \in {"insert", "delete", "get"}
          /\ Len(ret.key) # Options.key_len)
        => ret.res = InvalidKeyLen(Options.key_len, Len(ret.key))

\* C11: dropping the handle and opening the same directory with the same
\* options gives the same get(k) for every key and the same iter()
\* sequence as the dropped handle gave.
C11_ReopenPreservesView ==
    [][(~open /\ open' /\ view # <<>>)
       => /\ \A k \in AllKeys :
               Database_get(eras', metadata', collision', data', k)
                   = view[1].get[k]
          /\ Database_iter(eras', metadata', data') = view[1].iter]_vars

\* C19: once compact has returned Ok, and as long as no commit follows,
\* every prefix it found with three keys or more has its collision file
\* and its collided bit, and get gives for every key of these prefixes the
\* value it gave before the compaction: right after it, after a
\* flush_journal and after a reopen.  The compaction itself leaves get of
\* every key as it was.
C19_CompactionPreservesReads ==
    /\ [](open /\ migrated # <<>>
            => \A p \in migrated[1].prefixes :
                  /\ p \in DOMAIN collision
                  /\ p \in metadata.collided_prefixes
                  /\ \A k \in AllKeys :
                        PrefixOf(k) = p => Get(k) = migrated[1].get[k])
    /\ [][migrated' # migrated /\ migrated' # <<>>
            => \A k \in AllKeys :
                  Database_get(eras', metadata', collision', data', k)
                      = migrated'[1].get[k]]_vars

\* the entries of a collision file for a key
EntriesOf(file, k) == SelectSeq(file, LAMBDA e : e.k = k)

\* C20: when get reaches the collision file of a collided prefix (no era
\* of the journal holds the key) and the file holds more than one entry
\* for the key, get gives the entry appended last: its value, and None
\* when it is the entry of a delete.
C20_SidecarLastMatch ==
    open => \A k \in AllKeys :
        LET p == PrefixOf(k)
        IN  (/\ p \in metadata.prefixes
             /\ p \in metadata.collided_prefixes
             /\ p \in DOMAIN collision
             /\ Len(EntriesOf(collision[p], k)) > 1
             /\ \A i \in 1..Len(eras) : cache_memory(eras[i].ops, k).t = "None")
            => LET es == EntriesOf(collision[p], k)
                   last == es[Len(es)].v
               IN  Get(k) = IF last = EmptyV THEN NoneV ELSE last

\* C22: the eras of a handle carry strictly increasing indices in the order
\* they are searched (oldest first, as committed, also after a reopen), and
\* the index the next era will take is above the index of every era file
\* that exists in the directory.
C22_EraIndicesIncrease ==
    open => /\ \A i \in 1..(Len(eras) - 1) : eras[i].idx < eras[i + 1].idx
            /\ \A n \in DOMAIN eraFiles : n < next_era_index

\* C23: every era a handle serves was loaded from a file whose leading
\* checksum is the checksum of its operations; no era of a file with a
\* mismatching checksum is in the journal.
C23_ChecksumVerifiedOnOpen ==
    open => \A i \in 1..Len(eras) :
                eras[i].idx \in DOMAIN eraFiles
                    => eraFiles[eras[i].idx].sum = eraFiles[eras[i].idx].ops

\* C24: while the database is closed and db.flush carries a checksum that
\* does not match its body, no step opens the database or changes data.db
\* or meta.db, and an open returns CorruptedFlush.
C24_CorruptedFlushNotApplied ==
    [][(~open /\ flushFile # <<>> /\ ~flushFile[1].sum_ok)
       => /\ ~open'
          /\ data' = data
          /\ metaFile' = metaFile
          /\ flushFile' = flushFile
          /\ ret' # ret => ret' = Returned("open", <<>>, CorruptedFlush)]_vars

\* an open has returned CorruptedFlush on a db.flush whose overwrites
\* would have changed data.db and meta.db
C24_Witness ==
    /\ ~open
    /\ ret = Returned("open", <<>>, CorruptedFlush)
    /\ flushFile # <<>>
    /\ ~flushFile[1].sum_ok
    /\ Flush_flush(data, flushFile[1].entries) # data
    /\ flushFile[1].meta # metaFile

\* C25: Flush::open returns Ok(None) on a directory without db.flush.
C25_FlushOpenNoneWhenAbsent ==
    (probe # <<>> /\ probe.fn = "Flush::open" /\ probe.file = <<>>)
        => probe.ret[1] = [res |-> Ok, flush |-> <<>>]

\* C26: from_external, and with it create and open, returns InvalidOptions
\* exactly when extend_threshold_percent is 0 or above 100, or
\* key_index_bits is 0, above 32 or above 8 * key_len; every other option
\* set is accepted.
C26_OptionsValidated ==
    (probe # <<>> /\ probe.fn = "from_external" /\ probe.ret # <<>>)
        => LET e == probe.external
               invalid == \/ e.extend_threshold_percent = 0
                          \/ e.extend_threshold_percent > 100
                          \/ e.key_index_bits = 0
                          \/ e.key_index_bits > 32
                          \/ e.key_index_bits > 8 * e.key_len
           IN  /\ invalid => probe.ret[1].res = InvalidOptions
               /\ ~invalid => probe.ret[1].res = Ok

\* an option set with key_index_bits above 8 * key_len and nothing else
\* wrong was rejected
C26_Witness ==
    /\ probe # <<>> /\ probe.fn = "from_external" /\ probe.ret # <<>>
    /\ probe.external.key_index_bits = 9
    /\ probe.external.key_len = 1
    /\ probe.external.extend_threshold_percent = 100
    /\ probe.ret[1].res = InvalidOptions

\* C27: for accepted options initial_db_size is 2 * 2^key_index_bits fields
\* of record_offset = 1 + field_body_size bytes.
C27_InitialDbSize ==
    (probe # <<>> /\ probe.fn = "from_external" /\ probe.ret # <<>>
         /\ probe.ret[1].res = Ok)
        => LET o == probe.ret[1].options[1]
           IN  /\ o.record_offset = 1 + o.field_body_size
               /\ o.initial_db_size =
                      [log2_fields |-> o.external.key_index_bits + 1,
                       record_offset |-> o.record_offset]

\* the keys the operations of the eras es name
NamedIn(es) == UNION {{es[i].ops[j].k : j \in 1..Len(es[i].ops)} : i \in 1..Len(es)}

\* the eras a flush_journal step has folded
Folded == SubSeq(eras, 1, Len(eras) - Len(eras'))

\* C28: a flush_journal call that returns leaves get as it was for every
\* key that no operation of the folded eras names.
C28_FoldKeepsOtherKeys ==
    [][FlushReturned
       => \A k \in Keys \ NamedIn(Folded) : Get(k)' = Get(k)]_vars

IsWriter == probe # <<>> /\ probe.fn = "writer"

C21_QuickcheckGet ==
    (probe # <<>> /\ probe.fn = "quickcheck" /\ probe.stage = "got")
        => probe.ret = <<probe.args.value>>

\* the prefixes of the live records of the data file
LivePrefixes == {PrefixOf(data[i].k) : i \in {j \in 1..Len(data) : data[j].h = HEADER_INSERTED}}

\* C31: while a handle is open, a prefix is set in the metadata exactly
\* when its bucket holds a live record or the prefix is collided.
C31_PrefixBitIffLive ==
    open => \A p \in 0..(NPrefixes - 1) :
                p \in metadata.prefixes
                    <=> (p \in LivePrefixes \/ p \in metadata.collided_prefixes)

\* the fields of data.db that start a live record
LiveRecords == {i \in 1..Len(data) : data[i].h = HEADER_INSERTED}

\* C32: while a handle is open, occupied_bytes is the sum, over the live
\* records of data.db, of key length plus value length.
C32_OccupiedBytesIsPayload ==
    open => metadata.occupied_bytes = Cardinality(LiveRecords) * field_body_size

\* the metadata in the tail of the flush file compact writes for its deletions
CompactFlushMeta ==
    LET it == Database_iter(eras, metadata, data)
    IN  run(data, metadata, Deletions(prefixes_iter(collisions(it)), it)).meta

\* the step wrote to meta.db the metadata a flush file carries: the file of
\* the fold last started, the file found by open, or the file of compact
MetaFromFlushFile ==
    \/ fold' # <<>> /\ metaFile' = fold'[1].meta
    \/ flushFile # <<>> /\ metaFile' = flushFile[1].meta
    \/ open /\ ret'.call = "compact" /\ metaFile' = CompactFlushMeta

\* C33: the content of meta.db changes only by applying a flush file, whose
\* tail carries the complete new metadata; compact included.
C33_MetaOnlyByFlushFile ==
    [][metaFile' # metaFile => MetaFromFlushFile]_vars

\* what a record carries: key, length prefix in the variable mode, value
Payload ==
    IF probe.const_value THEN probe.key \o probe.value
    ELSE probe.key \o <<Len(probe.value), 0, 0, 0>> \o probe.value

\* the number of fields that hold n bytes
FieldsFor(n, fbs) == (n + fbs - 1) \div fbs

\* the buffer is whole fields, the first Inserted, the later ones Continued,
\* and their bodies are the payload followed by zeroes
WellFramed(buffer, payload, fbs) ==
    /\ Len(buffer) = FieldsFor(Len(payload), fbs) * (fbs + 1)
    /\ \A i \in 1..Len(buffer) :
          LET f == (i - 1) \div (fbs + 1)
              b == (i - 1) % (fbs + 1)
          IN  buffer[i] =
                 IF b = 0 THEN (IF f = 0 THEN HEADER_INSERTED ELSE HEADER_CONTINUED)
                 ELSE IF f * fbs + b <= Len(payload) THEN payload[f * fbs + b]
                 ELSE 0

\* C34: append_record emits a whole number of fields, the first header
\* Inserted, every later one Continued, the last field zero-padded; reading
\* the record back with the same field body size and value mode gives key
\* and value, in the constant and in the variable mode, over one or several
\* fields.
C34_RecordRoundTrip ==
    probe # <<>> /\ probe.fn = "record" =>
        /\ probe.stage \in {"appended", "read"} =>
              WellFramed(probe.buffer, Payload, probe.field_body_size)
        /\ probe.stage = "read" =>
              probe.ret = <<[panic |-> FALSE, key |-> probe.key,
                             value |-> probe.value, len |-> Len(probe.value)]>>

\* a variable-length record over several fields, with padding, was read back
C34_Witness ==
    /\ probe # <<>> /\ probe.fn = "record" /\ probe.stage = "read"
    /\ ~probe.const_value
    /\ Len(probe.value) = MaxValueLen
    /\ Len(probe.buffer) > 2 * field_size(probe.field_body_size)
    /\ Len(Payload) % probe.field_body_size # 0
    /\ ~probe.ret[1].panic
    /\ probe.ret[1].value = probe.value

\* C35: for every key_index_bits, 1 and 2 included, the serialized metadata
\* has exactly the length of meta.db, and reading it back yields the same
\* occupied_bytes, prefix bits and collided bits.
C35_MetadataRoundTrip ==
    probe # <<>> /\ probe.fn = "metadata" =>
        /\ probe.stage \in {"written", "read"} =>
              /\ Len(probe.bytes) = bytes_len(probe.prefix_bits)
              /\ written_len(probe.metadata, probe.prefix_bits)
                    = Len(probe.bytes)
        /\ probe.stage = "read" => probe.ret = <<probe.metadata>>

\* C36: iterating a transaction's serialized operation log yields exactly
\* the staged operations, each with its kind, key and value, in insertion
\* order, and then ends.
C36_LogRoundTrip ==
    probe # <<>> /\ probe.fn = "transaction" =>
        /\ probe.stage # "panic"
        /\ Len(probe.yielded) <= Len(probe.staged)
        /\ probe.yielded = SubSeq(probe.staged, 1, Len(probe.yielded))
        /\ probe.stage = "ended" => probe.yielded = probe.staged

\* a log of an Insert and a Delete was iterated to its end
C36_Witness ==
    /\ probe # <<>> /\ probe.fn = "transaction" /\ probe.stage = "ended"
    /\ Len(probe.staged) = MaxLogOps
    /\ \E i, j \in 1..Len(probe.yielded) :
          /\ probe.yielded[i].t = "Insert" /\ probe.yielded[i].v # <<>>
          /\ probe.yielded[j].t = "Delete"

\* the step in which the process dies inside flush_journal after the flush
\* file of the first drained era was applied and deleted, the era file
\* still there: data.db and meta.db hold the single fold of the era
CrashBeforeEraDelete ==
    /\ CanFlush
    /\ ~open'
    /\ ~Plan(Disk, eras[1]).panic
    /\ fold' = FoldOf(Disk, eras[1], Plan(Disk, eras[1]))
    /\ data' = fold'[1].data
    /\ metaFile' = fold'[1].meta
    /\ flushFile' = <<>>
    /\ eraFiles' = eraFiles

\* the reopen after that step and the fold of the same era again: the
\* journal read from the era files, the plan of its first era on the files
\* the crash left, and data.db after that plan is applied
RefoldEras == Journal_open(eraFiles')
RefoldPlan ==
    run(data', metaFile', NotCollided(metaFile', SortedOps(RefoldEras[1].ops)))
RefoldData == Flush_flush(data', RefoldPlan.entries)

\* no key has two live records in the data file d
NoDuplicateLive(d) ==
    LET live == SelectSeq(d, LAMBDA f : f.h = HEADER_INSERTED)
    IN  \A i, j \in 1..Len(live) : live[i].k = live[j].k => i = j

\* C37: after a crash between the deletion of an era's flush file and the
\* deletion of the era file, reopening and folding that era again gives the
\* same get for every key and the same occupied_bytes as the single fold,
\* and no duplicate live record.
C37_RefoldIdempotent ==
    [][CrashBeforeEraDelete =>
          /\ RefoldEras[1] = eras[1]
          /\ ~RefoldPlan.panic
          /\ \A k \in Keys :
                Database_get(<<>>, RefoldPlan.meta, collision', RefoldData, k)
                    = Database_get(<<>>, metaFile', collision', data', k)
          /\ RefoldPlan.meta.occupied_bytes = metaFile'.occupied_bytes
          /\ NoDuplicateLive(data') => NoDuplicateLive(RefoldData)]_vars

\* the step is the reopen that follows a death inside compact
ReopenAfterCompactCrash ==
    /\ ~open /\ open'
    /\ probe # <<>> /\ probe.fn = "compact" /\ probe.crashes = crashes

\* C38: a crash at any step of compact, followed by reopen, leaves get(k)
\* equal to its pre-compact value for every key.
C38_CompactCrashSafe ==
    [][ReopenAfterCompactCrash =>
          \A k \in AllKeys :
              Database_get(eras', metadata', collision', data', k)
                  = probe.get[k]]_vars

\* the step is a call of compact that returns, on a database an earlier
\* compact has declared a prefix collided in
CompactAgain ==
    /\ open /\ open'
    /\ hist' = hist /\ eras' = eras
    /\ ret'.call = "compact"
    /\ metadata.collided_prefixes # {}

\* C39: a compact issued after an earlier successful compact, with or
\* without unflushed eras that touch a collided prefix, returns Ok, creates
\* no second collision file for that prefix and leaves every get unchanged.
C39_CompactRepeatable ==
    [][CompactAgain =>
          /\ ret' = Returned("compact", <<>>, Ok)
          /\ \A p \in metadata.collided_prefixes :
                p \in DOMAIN collision /\ collision'[p] = collision[p]
          /\ \A k \in AllKeys :
                Database_get(eras', metadata', collision', data', k)
                    = Database_get(eras, metadata, collision, data, k)]_vars

====
